---- MODULE Spec2Model ----
(***************************************************************************)
(* A model of the write side of the WIM container library:                 *)
(*   - wimlib_overwrite() and the three ways it rewrites a container       *)
(*     (in-place append, in-place compaction, rebuild through a temporary  *)
(*     file), with finish_write(), the advisory lock and the               *)
(*     WRITE_IN_PROGRESS header flag (src/src/write.c);                    *)
(*   - the deduplication of unhashed blobs while they are written          *)
(*     (write_blob_begin_read / write_blob_end_read, src/src/write.c).     *)
(*                                                                         *)
(* A file is a header (the first WIM_HEADER_DISK_SIZE units) followed by   *)
(* cells; cell i of `bytes' is the unit at file offset i.  Sizes are in    *)
(* units, one unit standing for an arbitrary run of bytes.                 *)
(***************************************************************************)
EXTENDS Integers, Sequences, FiniteSets, TLC

VARIABLES
    files,        \* inode -> file (the original container and temporary files)
    path,         \* the inode wim->filename currently names
    flock_owner,  \* holder of the exclusive flock() on the original inode
    wim,          \* handle -> WIMStruct and the position of its overwrite call
    rdescs,       \* the resources of the container as opened (blob table)
    orig0,        \* the original file as it was when the handles opened it
    blobs,        \* blob descriptor id -> descriptor (deduplication model)
    wb,           \* state of one write_blobs() pass (deduplication model)
    cc,           \* chunks on their way through the chunk compressor
    sp,           \* one wimlib_split() call and the part files it has written
    pl,           \* the images of a WIMStruct and the planning of one write
    rc,           \* a resource of an input container and the choice to copy it raw
    dec           \* one decompressor: range decoder, Huffman decoder or item loop

vars == <<files, path, flock_owner, wim, rdescs, orig0, blobs, wb, cc, sp, pl, rc, dec>>

ovars == <<files, path, flock_owner, wim, rdescs, orig0>>
svars == <<cc, sp, pl, rc, dec>>
bvars == <<blobs, wb, svars>>

(***************************************************************************)
(* Bounds and program constants.                                           *)
(***************************************************************************)
WIM_HEADER_DISK_SIZE == 1

\* By how many units the XML data may grow between open and overwrite.
MaxXmlGrow == 1

\* The number of units of new blob data a modified image brings.
MaxNewBlobs == 1

Handles == {1, 2}
Ext == 3                      \* a foreign process holding the flock
NoOwner == 0

Max(a, b) == IF a >= b THEN a ELSE b
Min(a, b) == IF a <= b THEN a ELSE b

RECURSIVE SeqSum(_)
SeqSum(s) == IF s = <<>> THEN 0 ELSE Head(s) + SeqSum(Tail(s))

(***************************************************************************)
(* Resource headers and file headers.                                      *)
(***************************************************************************)
Reshdr(o, s) == [off |-> o, size |-> s]
zero_reshdr == Reshdr(0, 0)
ResEnd(r) == r.off + r.size
Rdesc(o, s, r) == [off |-> o, size |-> s, ref |-> r]

Header(magic, wip, bt, xml, integ, n) ==
    [magic |-> magic, wip |-> wip, blob_table_reshdr |-> bt,
     xml_data_reshdr |-> xml, integrity_table_reshdr |-> integ,
     image_count |-> n]

NoHdr == Header("none", FALSE, zero_reshdr, zero_reshdr, zero_reshdr, 0)

wim_has_integrity_table(hdr) == hdr.integrity_table_reshdr.off # 0
wim_is_pipable(hdr) == hdr.magic = "PWM"

(***************************************************************************)
(* File contents.                                                          *)
(***************************************************************************)
Cell(k, v, i) == [k |-> k, v |-> v, i |-> i]
HoleCell == Cell("hole", 0, 0)
Cells(k, v, n) == [i \in 1..n |-> Cell(k, v, i)]

NoFile == [exists |-> FALSE, bytes |-> <<>>, hdr |-> NoHdr,
           end_hdr |-> NoHdr, synced |-> FALSE]

FileLen(f) == WIM_HEADER_DISK_SIZE + Len(f.bytes)

\* full_write()/full_pwrite() of the cells cs at offset off.
WriteAt(b, off, cs) ==
    IF cs = <<>> THEN b
    ELSE [i \in 1..Max(Len(b), off + Len(cs) - 1) |->
            IF i >= off /\ i < off + Len(cs) THEN cs[i - off + 1]
            ELSE IF i <= Len(b) THEN b[i] ELSE HoleCell]

\* ftruncate() to a length of len units (header included).
Truncate(b, len) ==
    [i \in 1..Max(len - WIM_HEADER_DISK_SIZE, 0) |->
        IF i <= Len(b) THEN b[i] ELSE HoleCell]

InRes(i, r) == r.size > 0 /\ i >= r.off /\ i < ResEnd(r)

(***************************************************************************)
(* The containers the handles are opened on.  Besides the usual layouts    *)
(* there are the ones the library itself leaves behind (trailing units     *)
(* after the last table: an earlier overwrite that wrote no new blobs and  *)
(* a shorter tail, or an interrupted append; a hole where old tables       *)
(* were) and the ones only foreign writers produce (tables out of order,   *)
(* a resource behind the XML data, overlapping resources).                 *)
(***************************************************************************)
Layout(res, bt, xml, integ, len) ==
    [res |-> res, bt |-> bt, xml |-> xml, integ |-> integ, len |-> len]

NormalLayout == Layout({Rdesc(1, 1, TRUE)}, Reshdr(2, 1), Reshdr(3, 1), zero_reshdr, 4)
IntegLayout == Layout({Rdesc(1, 1, TRUE)}, Reshdr(2, 1), Reshdr(3, 1), Reshdr(4, 1), 5)
SlackLayout == Layout({Rdesc(1, 1, TRUE)}, Reshdr(2, 1), Reshdr(3, 1), zero_reshdr, 5)
HoleLayout ==
    Layout({Rdesc(1, 1, TRUE), Rdesc(4, 1, TRUE)}, Reshdr(5, 1), Reshdr(6, 1), zero_reshdr, 7)
ResAfterXmlLayout ==
    Layout({Rdesc(1, 1, TRUE), Rdesc(4, 1, TRUE)}, Reshdr(2, 1), Reshdr(3, 1), zero_reshdr, 5)
BlobTableAfterXmlLayout ==
    Layout({Rdesc(1, 1, TRUE)}, Reshdr(3, 1), Reshdr(2, 1), zero_reshdr, 4)
IntegBeforeXmlLayout ==
    Layout({Rdesc(1, 1, TRUE)}, Reshdr(2, 1), Reshdr(4, 1), Reshdr(3, 1), 5)
OverlapLayout ==
    Layout({Rdesc(2, 2, TRUE), Rdesc(3, 2, TRUE)}, Reshdr(5, 1), Reshdr(6, 1), zero_reshdr, 7)
OverlapUnrefLayout ==
    Layout({Rdesc(2, 2, TRUE), Rdesc(3, 2, FALSE)}, Reshdr(5, 1), Reshdr(6, 1), zero_reshdr, 7)

Layouts == {NormalLayout, IntegLayout, SlackLayout, HoleLayout, ResAfterXmlLayout,
            BlobTableAfterXmlLayout, IntegBeforeXmlLayout, OverlapLayout,
            OverlapUnrefLayout}

LayoutCell(L, i) ==
    IF InRes(i, L.xml) THEN Cell("xml", 0, i - L.xml.off + 1)
    ELSE IF InRes(i, L.integ) THEN Cell("integ", 0, i - L.integ.off + 1)
    ELSE IF InRes(i, L.bt) THEN Cell("bt", 0, i - L.bt.off + 1)
    ELSE Cell("old", 0, i)

LayoutFile(L, magic) ==
    [exists |-> TRUE,
     bytes |-> [i \in 1..(L.len - WIM_HEADER_DISK_SIZE) |-> LayoutCell(L, i)],
     hdr |-> Header(magic, FALSE, L.bt, L.xml, L.integ, 1),
     end_hdr |-> NoHdr,
     synced |-> TRUE]

(***************************************************************************)
(* Write flags (include/wimlib.h and the internal flags of write.c).       *)
(***************************************************************************)
CHECK_INTEGRITY == "CHECK_INTEGRITY"
NO_CHECK_INTEGRITY == "NO_CHECK_INTEGRITY"
PIPABLE == "PIPABLE"
NOT_PIPABLE == "NOT_PIPABLE"
RECOMPRESS == "RECOMPRESS"
FSYNC == "FSYNC"
REBUILD == "REBUILD"
SOFT_DELETE == "SOFT_DELETE"
STREAMS_OK == "STREAMS_OK"
RETAIN_GUID == "RETAIN_GUID"
NO_SOLID_SORT == "NO_SOLID_SORT"
UNSAFE_COMPACT == "UNSAFE_COMPACT"
APPEND == "APPEND"
NO_NEW_BLOBS == "NO_NEW_BLOBS"

(***************************************************************************)
(* A WIMStruct together with the position of its wimlib_overwrite() call.  *)
(* wlog, ip_wrote, tried, flock_errno, finalized and cancelled record      *)
(* history for the properties; the program does not read them.             *)
(***************************************************************************)
NoFd == [ino |-> "none", offset |-> 0, open |-> FALSE]

HandleInput(flags, modified, grow, ctype_same, chunk_same) ==
    [flags |-> flags, modified |-> modified, grow |-> grow,
     ctype_same |-> ctype_same, chunk_same |-> chunk_same]

OpenHandle(inp, hdr, pc) ==
    [pc |-> pc,
     call_flags |-> inp.flags,
     ow_flags |-> {},
     write_flags |-> {},
     ret |-> "NONE",
     hdr |-> hdr,
     out_hdr |-> NoHdr,
     old_wim_end |-> 0,
     out_fd |-> NoFd,
     locked_for_append |-> FALSE,
     being_compacted |-> FALSE,
     image_deletion_occurred |-> FALSE,
     modified |-> inp.modified,
     xml_grow |-> inp.grow,
     out_ctype_same |-> inp.ctype_same,
     out_chunk_same |-> inp.chunk_same,
     caller |-> "none",
     wlog |-> <<>>,
     ip_wrote |-> FALSE,
     tried |-> <<>>,
     flock_errno |-> "NONE",
     finalized |-> FALSE,
     cancelled |-> "NONE"]

TmpOf(h) == IF h = 1 THEN "tmp1" ELSE "tmp2"
Inodes == {"orig", "tmp1", "tmp2"}

Logged(w, k, off, size) ==
    [w EXCEPT !.wlog = Append(@, [k |-> k, off |-> off, size |-> size])]

FileWrite(f, off, cs) ==
    [f EXCEPT !.bytes = WriteAt(@, off, cs),
              !.synced = IF cs = <<>> THEN @ ELSE FALSE]

\* any_images_modified(): an image was added or changed since the open.
any_images_modified(w) == w.modified

\* The new XML data: changed whenever anything it describes changed.
XmlVersion(w, h) ==
    IF w.xml_grow > 0 \/ w.modified \/ w.image_deletion_occurred THEN h ELSE 0
XmlCells(w, h) == Cells("xml", XmlVersion(w, h), w.hdr.xml_data_reshdr.size + w.xml_grow)

(***************************************************************************)
(* wimlib_delete_image(): the image is dropped from the in-memory          *)
(* structures only.                                                        *)
(***************************************************************************)
wimlib_delete_image(h) ==
    /\ wim[h].pc = "ready"
    /\ wim[h].hdr.image_count >= 1
    /\ wim' = [wim EXCEPT ![h].hdr.image_count = @ - 1,
                          ![h].image_deletion_occurred = TRUE]
    /\ UNCHANGED <<files, path, flock_owner, rdescs, orig0, bvars>>

(***************************************************************************)
(* wimlib_overwrite(): the choice of the strategy.                         *)
(***************************************************************************)
\* Fault: an image deletion not taken into account.
can_overwrite_wim_inplace_despite_deletion(w, write_flags) ==
    /\ ~(REBUILD \in write_flags)
    /\ ~(wim_is_pipable(w.hdr) \/ PIPABLE \in write_flags)
    /\ w.out_ctype_same
    /\ w.out_chunk_same

can_overwrite_wim_inplace(w, write_flags) ==
    /\ ~(REBUILD \in write_flags)
    /\ ~(w.image_deletion_occurred /\ ~(SOFT_DELETE \in write_flags))
    /\ ~(wim_is_pipable(w.hdr) \/ PIPABLE \in write_flags)
    /\ w.out_ctype_same
    /\ w.out_chunk_same

SOLID == "SOLID"

\* write_flags_to_resource_flags()
write_flags_to_resource_flags(write_flags) ==
    (IF RECOMPRESS \in write_flags THEN {"RECOMPRESS"} ELSE {})
    \cup (IF PIPABLE \in write_flags THEN {"PIPABLE"} ELSE {})
    \cup (IF SOLID \in write_flags THEN {"SOLID"} ELSE {})
    \cup (IF SOLID \in write_flags /\ NO_SOLID_SORT \notin write_flags
          THEN {"SOLID_SORT"} ELSE {})

\* Fault: the rebuild flag left in place under unsafe compaction.
unsafe_compact_flags_keeping_rebuild(write_flags) ==
    IF UNSAFE_COMPACT \in write_flags
    THEN write_flags \cup {SOFT_DELETE, NO_SOLID_SORT}
    ELSE write_flags

\* wimlib_overwrite(): what UNSAFE_COMPACT makes of the flags.
unsafe_compact_flags(write_flags) ==
    IF UNSAFE_COMPACT \in write_flags
    THEN (write_flags \ {REBUILD}) \cup {SOFT_DELETE, NO_SOLID_SORT}
    ELSE write_flags

Return(w, ret) == [w EXCEPT !.pc = "returned", !.ret = ret]

\* overwrite_wim_via_tmpfile() up to its call of wimlib_write().
overwrite_wim_via_tmpfile(w, write_flags) ==
    [w EXCEPT !.pc = "write_wim", !.caller = "write_wim", !.ret = "NONE",
              !.tried = Append(@, "tmpfile"),
              !.write_flags = write_flags \cup {FSYNC, RETAIN_GUID}]

wimlib_overwrite(h) ==
    /\ wim[h].pc = "ready"
    /\ LET w == wim[h]
           f == unsafe_compact_flags(w.call_flags)
           w1 == [w EXCEPT !.ow_flags = f, !.write_flags = f]
       IN wim' = [wim EXCEPT ![h] =
            IF UNSAFE_COMPACT \in w.call_flags /\ RECOMPRESS \in w.call_flags
            THEN Return(w, "COMPACTION_NOT_POSSIBLE")
            ELSE IF can_overwrite_wim_inplace(w, f)
            THEN [w1 EXCEPT !.pc = "inplace", !.caller = "inplace",
                            !.tried = Append(@, "inplace")]
            ELSE IF UNSAFE_COMPACT \in f
            THEN Return(w1, "COMPACTION_NOT_POSSIBLE")
            ELSE overwrite_wim_via_tmpfile(w1, f)]
    /\ UNCHANGED <<files, path, flock_owner, rdescs, orig0, bvars>>

(***************************************************************************)
(* overwrite_wim_inplace(), up to the point where the file is opened.      *)
(***************************************************************************)
integrity_default(w, write_flags) ==
    IF write_flags \cap {CHECK_INTEGRITY, NO_CHECK_INTEGRITY} = {}
       /\ wim_has_integrity_table(w.hdr)
    THEN write_flags \cup {CHECK_INTEGRITY}
    ELSE write_flags

\* The two layout tests of the append branch that yield RESOURCE_ORDER.
append_layout_ok(hdr) ==
    /\ ~(wim_has_integrity_table(hdr)
         /\ hdr.integrity_table_reshdr.off < ResEnd(hdr.xml_data_reshdr))
    /\ ~(ResEnd(hdr.blob_table_reshdr) > hdr.xml_data_reshdr.off)

no_new_blobs(w) == ~w.image_deletion_occurred /\ ~any_images_modified(w)

\* Fault: the end of the old container taken without regard to an
\* integrity table.
append_old_wim_end_without_integrity(w) ==
    IF no_new_blobs(w) THEN ResEnd(w.hdr.blob_table_reshdr)
    ELSE ResEnd(w.hdr.xml_data_reshdr)

append_old_wim_end(w) ==
    IF no_new_blobs(w) THEN ResEnd(w.hdr.blob_table_reshdr)
    ELSE IF wim_has_integrity_table(w.hdr) THEN ResEnd(w.hdr.integrity_table_reshdr)
    ELSE ResEnd(w.hdr.xml_data_reshdr)

check_resource_offsets(res, end_offset) ==
    \A r \in res : ResEnd(r) <= end_offset

\* prepare_blob_list_for_write(): it may run out of memory, and its loop
\* over the metadata resources reads image_metadata[image_count], one slot
\* past the array, whenever there is an image.
PrepareOutcomes(w) ==
    {"ok", "NOMEM"} \cup (IF w.hdr.image_count >= 1 THEN {"crash"} ELSE {})

AfterPrepare(w, outcome, okpc, errpc) ==
    IF outcome = "ok" THEN [w EXCEPT !.pc = okpc]
    ELSE IF outcome = "crash" THEN [w EXCEPT !.pc = "crashed"]
    ELSE [w EXCEPT !.pc = errpc, !.ret = outcome]

overwrite_wim_inplace(h) ==
    /\ wim[h].pc = "inplace"
    /\ LET w == wim[h]
           f1 == integrity_default(w, w.write_flags)
           w1 == [w EXCEPT !.write_flags = f1, !.out_hdr = w.hdr]
       IN IF UNSAFE_COMPACT \in f1
          THEN \E outcome \in PrepareOutcomes(w) :
                 wim' = [wim EXCEPT ![h] =
                    AfterPrepare([w1 EXCEPT !.being_compacted = TRUE,
                                            !.old_wim_end = WIM_HEADER_DISK_SIZE],
                                 outcome, "ip_open", "out")]
          ELSE LET f2 == f1 \cup {APPEND, STREAMS_OK}
                   f3 == IF no_new_blobs(w) THEN f2 \cup {NO_NEW_BLOBS} ELSE f2
                   w2 == [w1 EXCEPT !.write_flags = f3,
                                    !.old_wim_end = append_old_wim_end(w)]
               IN IF ~append_layout_ok(w.hdr)
                  THEN wim' = [wim EXCEPT ![h] =
                          [w1 EXCEPT !.write_flags = f2, !.pc = "out",
                                     !.ret = "RESOURCE_ORDER"]]
                  ELSE IF ~check_resource_offsets(rdescs, w2.old_wim_end)
                  THEN wim' = [wim EXCEPT ![h] =
                          [w2 EXCEPT !.pc = "out", !.ret = "RESOURCE_ORDER"]]
                  ELSE \E outcome \in PrepareOutcomes(w) :
                          wim' = [wim EXCEPT ![h] =
                             AfterPrepare(w2, outcome, "ip_open", "out")]
    /\ UNCHANGED <<files, path, flock_owner, rdescs, orig0, bvars>>

open_wim_writable(h) ==
    /\ wim[h].pc = "ip_open"
    /\ \E ok \in BOOLEAN :
         wim' = [wim EXCEPT ![h] =
            IF ok THEN [@ EXCEPT !.pc = "ip_lock",
                                 !.out_fd = [ino |-> path, offset |-> 0, open |-> TRUE]]
            ELSE [@ EXCEPT !.pc = "out", !.ret = "OPEN"]]
    /\ UNCHANGED <<files, path, flock_owner, rdescs, orig0, bvars>>

(***************************************************************************)
(* The advisory lock.  flock(LOCK_EX | LOCK_NB) reports EWOULDBLOCK when    *)
(* another open file description holds the lock, and may fail for other    *)
(* reasons (ENOLCK) whoever holds it.                                      *)
(***************************************************************************)
FlockOutcomes(h) ==
    (IF flock_owner = NoOwner \/ flock_owner = h THEN {"OK"} ELSE {"EWOULDBLOCK"})
        \cup {"ENOLCK"}

\* Fault: every failure of flock() ignored.
lock_result_ignoring_errno(errno) == "SUCCESS"

\* What lock_wim_for_append() returns for the outcome of flock().
lock_result(errno) ==
    IF errno = "OK" THEN "SUCCESS"
    ELSE IF errno # "EWOULDBLOCK" THEN "SUCCESS"
    ELSE "ALREADY_LOCKED"

lock_wim_for_append(h) ==
    /\ wim[h].pc = "ip_lock"
    /\ LET w == wim[h] IN
       IF w.locked_for_append
       THEN /\ wim' = [wim EXCEPT ![h].pc = "ip_flags"]
            /\ UNCHANGED flock_owner
       ELSE \E errno \in FlockOutcomes(h) :
            /\ flock_owner' = IF errno = "OK" THEN h ELSE flock_owner
            /\ wim' = [wim EXCEPT ![h] =
                 IF lock_result(errno) = "SUCCESS"
                 THEN [w EXCEPT !.pc = "ip_flags", !.flock_errno = errno,
                                !.locked_for_append = (errno = "OK")]
                 ELSE [w EXCEPT !.pc = "out_close_wim", !.flock_errno = errno,
                                !.ret = lock_result(errno)]]
    /\ UNCHANGED <<files, path, rdescs, orig0, bvars>>

\* Fault: the lock never released.
unlock_skipped(w, owner) == owner

\* unlock_wim_for_append(): the new holder of the flock.
unlock_wim_for_append(w, owner) == IF w.locked_for_append THEN NoOwner ELSE owner

(***************************************************************************)
(* finish_write(): the order of its steps for the given write flags.       *)
(***************************************************************************)
\* Fault: the XML data written before the blob table.
finish_write_stages_xml_first ==
    <<"fw_xml", "fw_bt", "fw_chk", "fw_integ", "fw_hdr", "fw_trunc", "fw_fsync",
      "fw_close">>

finish_write_stages ==
    <<"fw_bt", "fw_xml", "fw_chk", "fw_integ", "fw_hdr", "fw_trunc", "fw_fsync",
      "fw_close">>

stage_enabled(stage, write_flags) ==
    CASE stage = "fw_bt" -> ~(NO_NEW_BLOBS \in write_flags)
      [] stage = "fw_chk" -> CHECK_INTEGRITY \in write_flags /\ NO_NEW_BLOBS \in write_flags
      [] stage = "fw_integ" -> CHECK_INTEGRITY \in write_flags
      [] stage = "fw_trunc" -> UNSAFE_COMPACT \in write_flags
      [] stage = "fw_fsync" -> FSYNC \in write_flags
      [] OTHER -> TRUE

finish_write_order(write_flags) ==
    LET Test(stage) == stage_enabled(stage, write_flags)
    IN SelectSeq(finish_write_stages, Test)

fw_first(write_flags) == Head(finish_write_order(write_flags))

fw_next(stage, write_flags) ==
    LET o == finish_write_order(write_flags)
        i == CHOOSE k \in 1..Len(o) : o[k] = stage
    IN IF i < Len(o) THEN o[i + 1] ELSE "fw_done"

(***************************************************************************)
(* overwrite_wim_inplace(): the writes.                                    *)
(***************************************************************************)
\* Fault: the header flags stored as they are.
hdr_flags_unchanged(wip) == wip

\* The WRITE_IN_PROGRESS bit of (hdr.flags | WIM_HDR_FLAG_WRITE_IN_PROGRESS).
hdr_flags_write_in_progress(wip) == TRUE

write_wim_header_flags(h) ==
    /\ wim[h].pc = "ip_flags"
    /\ LET w == wim[h]
           ino == w.out_fd.ino
       IN \E ok \in BOOLEAN, written \in BOOLEAN :
            /\ ok => written
            /\ files' = IF written
                        THEN [files EXCEPT ![ino].hdr.wip =
                                               hdr_flags_write_in_progress(w.hdr.wip),
                                           ![ino].synced = FALSE]
                        ELSE files
            /\ wim' = [wim EXCEPT ![h] =
                 IF ok THEN [w EXCEPT !.pc = "ip_seek", !.ip_wrote = TRUE]
                 ELSE [w EXCEPT !.pc = "out_unlock_wim", !.ret = "WRITE",
                                !.ip_wrote = written]]
    /\ UNCHANGED <<path, flock_owner, rdescs, orig0, bvars>>

filedes_seek(h) ==
    /\ wim[h].pc = "ip_seek"
    /\ \E ok \in BOOLEAN :
         wim' = [wim EXCEPT ![h] =
            IF ok THEN [@ EXCEPT !.pc = "ip_blobs", !.out_fd.offset = wim[h].old_wim_end]
            ELSE [@ EXCEPT !.pc = "out_restore_hdr", !.ret = "WRITE"]]
    /\ UNCHANGED <<files, path, flock_owner, rdescs, orig0, bvars>>

\* The existing resources on the blob list of a compaction, in the order
\* write_blobs() gives them: ascending offset.
SortByOffset(S) ==
    CHOOSE s \in [1..Cardinality(S) -> S] :
        /\ \A i, j \in 1..Cardinality(S) : i # j => s[i] # s[j]
        /\ \A i, j \in 1..Cardinality(S) :
              i < j => \/ s[i].off < s[j].off
                       \/ (s[i].off = s[j].off /\ s[i].size <= s[j].size)

compaction_blob_list(res) == SortByOffset({r \in res : r.ref})

\* Fault: no test for overlapping resources.
tally_without_overlap_test(list, being_compacted) == "SUCCESS"

tally_blob_list_stats(list, being_compacted) ==
    IF being_compacted
       /\ \E i \in 2..Len(list) : list[i].off < ResEnd(list[i - 1])
    THEN "RESOURCE_ORDER"
    ELSE "SUCCESS"

\* write_raw_copy_resource() under compaction: move the resource down, or
\* just step over it when it already is where it belongs.
write_raw_copy_resource(st, r) ==
    IF r.off > st.offset
    THEN [bytes |-> WriteAt(st.bytes, st.offset,
                            [i \in 1..r.size |-> st.bytes[r.off + i - 1]]),
          offset |-> st.offset + r.size]
    ELSE [bytes |-> st.bytes, offset |-> st.offset + r.size]

RECURSIVE RawCopy(_, _, _)
RawCopy(st, list, m) ==
    IF m = 0 THEN st
    ELSE write_raw_copy_resource(RawCopy(st, list, m - 1), list[m])

\* How many leading resources of the list can be read from the file.
RECURSIVE Readable(_, _, _)
Readable(list, len, m) ==
    IF m < Len(list) /\ ResEnd(list[m + 1]) <= len
    THEN Readable(list, len, m + 1) ELSE m

\* The blobs to write that are not raw-copied within the file: the new ones
\* of an in-place overwrite, every blob of a rebuild.
NewBlobCells(w, h) ==
    Cells("res", h, (IF w.modified THEN MaxNewBlobs ELSE 0)
                    + (IF w.caller = "write_wim" THEN 1 ELSE 0))

FailPc(w) == IF w.caller = "inplace" THEN "out_truncate" ELSE "tmp_ret"

\* What the caller's progress function may return: zero, a non-zero value
\* that is no error code of the library's own, and the non-zero value that
\* is the number of WIMLIB_ERR_RESOURCE_ORDER.
CONTINUE == "CONTINUE"
ProgressValues == {CONTINUE, "ABORTED_BY_PROGRESS", "RESOURCE_ORDER"}

\* call_progress(): the value of the progress function, handed on as it is.
call_progress(status) == IF status = CONTINUE THEN "SUCCESS" ELSE status

write_file_data_blobs(h) ==
    /\ wim[h].pc \in {"ip_blobs", "ww_blobs"}
    /\ LET w == wim[h]
           ino == w.out_fd.ino
           f == files[ino]
           list == IF w.being_compacted THEN compaction_blob_list(rdescs) ELSE <<>>
           cs == NewBlobCells(w, h)
           st0 == [bytes |-> f.bytes, offset |-> w.out_fd.offset]
           okpc == IF w.pc = "ip_blobs" THEN "ip_meta" ELSE fw_first(w.write_flags)
       IN IF tally_blob_list_stats(list, w.being_compacted) # "SUCCESS"
          THEN /\ wim' = [wim EXCEPT ![h] =
                            [w EXCEPT !.pc = FailPc(w), !.ret = "RESOURCE_ORDER"]]
               /\ UNCHANGED files
          ELSE \E m \in 0..Readable(list, FileLen(f), 0), n \in 0..Len(cs),
                  written \in {"SUCCESS", "WRITE"}, status \in ProgressValues :
               LET st == RawCopy(st0, list, m)
                   ret == IF written = "SUCCESS" THEN call_progress(status)
                          ELSE written
                   new == SubSeq(cs, 1, IF m = Len(list) THEN n ELSE 0)
                   w1 == [Logged(w, "res", w.out_fd.offset,
                                 st.offset + Len(new) - w.out_fd.offset)
                             EXCEPT !.out_fd.offset = st.offset + Len(new),
                                    !.cancelled = IF status = CONTINUE THEN @
                                                  ELSE status]
               IN /\ written # "SUCCESS" => status = CONTINUE
                  /\ status = CONTINUE /\ written = "SUCCESS" =>
                        (m = Len(list) /\ n = Len(cs))
                  /\ m < Len(list) => n = 0
                  /\ files' = [files EXCEPT ![ino] =
                        [@ EXCEPT !.bytes = WriteAt(st.bytes, st.offset, new),
                                  !.synced = IF st.bytes = f.bytes /\ new = <<>>
                                             THEN @ ELSE FALSE]]
                  /\ wim' = [wim EXCEPT ![h] =
                        IF ret = "SUCCESS" THEN [w1 EXCEPT !.pc = okpc]
                        ELSE [w1 EXCEPT !.pc = FailPc(w), !.ret = ret]]
    /\ UNCHANGED <<path, flock_owner, rdescs, orig0, bvars>>

MetadataCells(w, h) == IF w.modified THEN Cells("meta", h, 1) ELSE <<>>

write_metadata_resources(h) ==
    /\ wim[h].pc = "ip_meta"
    /\ LET w == wim[h]
           ino == w.out_fd.ino
           cs == MetadataCells(w, h)
       IN \E n \in 0..Len(cs), ok \in BOOLEAN :
            /\ ok => n = Len(cs)
            /\ files' = [files EXCEPT ![ino] =
                            FileWrite(@, w.out_fd.offset, SubSeq(cs, 1, n))]
            /\ wim' = [wim EXCEPT ![h] =
                 LET w1 == [Logged(w, "meta", w.out_fd.offset, n)
                               EXCEPT !.out_fd.offset = @ + n]
                 IN IF ok THEN [w1 EXCEPT !.pc = fw_first(w.write_flags)]
                    ELSE [w1 EXCEPT !.pc = FailPc(w), !.ret = "WRITE"]]
    /\ UNCHANGED <<path, flock_owner, rdescs, orig0, bvars>>

(***************************************************************************)
(* finish_write(), one step per write.                                     *)
(***************************************************************************)
SetReshdr(hdr, kind, r) ==
    CASE kind = "bt" -> [hdr EXCEPT !.blob_table_reshdr = r]
      [] kind = "xml" -> [hdr EXCEPT !.xml_data_reshdr = r]
      [] kind = "integ" -> [hdr EXCEPT !.integrity_table_reshdr = r]

\* Writing a table of cells cs at the current offset, as stage `stage'.
WriteTable(h, stage, kind, cs) ==
    /\ wim[h].pc = stage
    /\ LET w == wim[h]
           ino == w.out_fd.ino
           off == w.out_fd.offset
       IN \E n \in 0..Len(cs), ok \in BOOLEAN :
            /\ ok => n = Len(cs)
            /\ files' = [files EXCEPT ![ino] = FileWrite(@, off, SubSeq(cs, 1, n))]
            /\ wim' = [wim EXCEPT ![h] =
                 LET w1 == [Logged(w, kind, off, n) EXCEPT !.out_fd.offset = @ + n]
                 IN IF ok
                    THEN [w1 EXCEPT !.pc = fw_next(stage, w.write_flags),
                                    !.out_hdr = SetReshdr(@, kind, Reshdr(off, n))]
                    ELSE [w1 EXCEPT !.pc = FailPc(w), !.ret = "WRITE"]]
    /\ UNCHANGED <<path, flock_owner, rdescs, orig0, bvars>>

write_blob_table(h) == WriteTable(h, "fw_bt", "bt", Cells("bt", h, 1))

write_wim_xml_data(h) == WriteTable(h, "fw_xml", "xml", XmlCells(wim[h], h))

\* The integrity table covers the header end up to the blob table end:
\* it is the old one whenever no blob and no blob table was written.
IntegrityVersion(w, h) == IF NO_NEW_BLOBS \in w.write_flags THEN 0 ELSE h

write_integrity_table(h) ==
    WriteTable(h, "fw_integ", "integ", Cells("integ", IntegrityVersion(wim[h], h), 1))

\* The header finish_write() stores before the integrity table of an
\* overwrite without new blobs: no integrity table, write in progress.
checkpoint_hdr(out_hdr) ==
    [out_hdr EXCEPT !.integrity_table_reshdr = zero_reshdr, !.wip = TRUE]

write_checkpoint_header(h) ==
    /\ wim[h].pc = "fw_chk"
    /\ LET w == wim[h]
           ino == w.out_fd.ino
       IN \E ok \in BOOLEAN, written \in BOOLEAN :
            /\ ok => written
            /\ files' = IF written
                        THEN [files EXCEPT ![ino].hdr = checkpoint_hdr(w.out_hdr),
                                           ![ino].synced = FALSE]
                        ELSE files
            /\ wim' = [wim EXCEPT ![h] =
                 LET w1 == IF written THEN Logged(w, "chk_hdr", 0, WIM_HEADER_DISK_SIZE)
                           ELSE w
                 IN IF ok THEN [w1 EXCEPT !.pc = fw_next("fw_chk", w.write_flags)]
                    ELSE [w1 EXCEPT !.pc = FailPc(w), !.ret = "WRITE"]]
    /\ UNCHANGED <<path, flock_owner, rdescs, orig0, bvars>>

\* The final header: no integrity table unless one was asked for, and the
\* WRITE_IN_PROGRESS flag cleared.
final_hdr(out_hdr, write_flags) ==
    [out_hdr EXCEPT !.wip = FALSE,
                    !.integrity_table_reshdr =
                        IF CHECK_INTEGRITY \in write_flags THEN @ ELSE zero_reshdr]

write_wim_header(h) ==
    /\ wim[h].pc = "fw_hdr"
    /\ LET w == wim[h]
           ino == w.out_fd.ino
           off == w.out_fd.offset
           hdr == final_hdr(w.out_hdr, w.write_flags)
           pip == PIPABLE \in w.write_flags
       IN \E ok \in BOOLEAN, written \in BOOLEAN :
            /\ ok => written
            /\ files' = IF ~written THEN files
                        ELSE IF pip
                        THEN [files EXCEPT ![ino] =
                                [FileWrite(@, off, Cells("hdr", h, WIM_HEADER_DISK_SIZE))
                                    EXCEPT !.end_hdr = hdr]]
                        ELSE [files EXCEPT ![ino].hdr = hdr, ![ino].synced = FALSE]
            /\ wim' = [wim EXCEPT ![h] =
                 LET w1 == IF written
                           THEN [Logged(w, "hdr", IF pip THEN off ELSE 0,
                                        WIM_HEADER_DISK_SIZE)
                                    EXCEPT !.finalized = TRUE,
                                           !.out_fd.offset =
                                               IF pip THEN @ + WIM_HEADER_DISK_SIZE ELSE @]
                           ELSE w
                 IN IF ok THEN [w1 EXCEPT !.pc = fw_next("fw_hdr", w.write_flags),
                                          !.out_hdr = hdr]
                    ELSE [w1 EXCEPT !.pc = FailPc(w), !.ret = "WRITE", !.out_hdr = hdr]]
    /\ UNCHANGED <<path, flock_owner, rdescs, orig0, bvars>>

\* Compaction only: cut the file at the end of what was written.
finish_write_ftruncate(h) ==
    /\ wim[h].pc = "fw_trunc"
    /\ LET w == wim[h]
           ino == w.out_fd.ino
       IN \E ok \in BOOLEAN :
            /\ files' = IF ok
                        THEN [files EXCEPT ![ino].bytes = Truncate(@, w.out_fd.offset),
                                           ![ino].synced = FALSE]
                        ELSE files
            /\ wim' = [wim EXCEPT ![h] =
                 IF ok THEN [w EXCEPT !.pc = fw_next("fw_trunc", w.write_flags)]
                 ELSE [w EXCEPT !.pc = FailPc(w), !.ret = "WRITE"]]
    /\ UNCHANGED <<path, flock_owner, rdescs, orig0, bvars>>

finish_write_fsync(h) ==
    /\ wim[h].pc = "fw_fsync"
    /\ LET w == wim[h]
           ino == w.out_fd.ino
       IN \E ok \in BOOLEAN :
            /\ files' = IF ok THEN [files EXCEPT ![ino].synced = TRUE] ELSE files
            /\ wim' = [wim EXCEPT ![h] =
                 IF ok THEN [w EXCEPT !.pc = fw_next("fw_fsync", w.write_flags)]
                 ELSE [w EXCEPT !.pc = FailPc(w), !.ret = "WRITE"]]
    /\ UNCHANGED <<path, flock_owner, rdescs, orig0, bvars>>

\* close_wim_writable() at the end of finish_write(): the descriptor is
\* gone whether or not close() reports an error.
close_wim_writable(h) ==
    /\ wim[h].pc = "fw_close"
    /\ LET w == wim[h]
       IN \E ok \in BOOLEAN :
            wim' = [wim EXCEPT ![h] =
               LET w1 == [w EXCEPT !.out_fd.open = FALSE]
               IN IF ok
                  THEN [w1 EXCEPT !.pc = IF w.caller = "inplace" THEN "ip_unlock"
                                         ELSE "ww_open"]
                  ELSE [w1 EXCEPT !.pc = FailPc(w), !.ret = "WRITE"]]
    /\ UNCHANGED <<files, path, flock_owner, rdescs, orig0, bvars>>

(***************************************************************************)
(* overwrite_wim_inplace(): the ways out.                                  *)
(***************************************************************************)
\* out_truncate: cut off what was appended, unless nothing was appended or
\* the file was being compacted.  ftruncate() may fail, and does when the
\* descriptor is already closed.
out_truncate(h) ==
    /\ wim[h].pc = "out_truncate"
    /\ LET w == wim[h]
           ino == w.out_fd.ino
           attempt == w.write_flags \cap {NO_NEW_BLOBS, UNSAFE_COMPACT} = {}
       IN \E done \in (IF attempt /\ w.out_fd.open THEN BOOLEAN ELSE {FALSE}) :
            /\ files' = IF done
                        THEN [files EXCEPT ![ino].bytes = Truncate(@, w.old_wim_end),
                                           ![ino].synced = FALSE]
                        ELSE files
            /\ wim' = [wim EXCEPT ![h].pc = "out_restore_hdr"]
    /\ UNCHANGED <<path, flock_owner, rdescs, orig0, bvars>>

\* out_restore_hdr: store the header flags of the opened container again.
out_restore_hdr(h) ==
    /\ wim[h].pc = "out_restore_hdr"
    /\ LET w == wim[h]
           ino == w.out_fd.ino
       IN \E written \in (IF w.out_fd.open THEN BOOLEAN ELSE {FALSE}) :
            /\ files' = IF written
                        THEN [files EXCEPT ![ino].hdr.wip = w.hdr.wip,
                                           ![ino].synced = FALSE]
                        ELSE files
            /\ wim' = [wim EXCEPT ![h].pc = "out_unlock_wim"]
    /\ UNCHANGED <<path, flock_owner, rdescs, orig0, bvars>>

\* The rest of overwrite_wim_inplace() and what wimlib_overwrite() does
\* with its result.  On success: unlock_wim_for_append() and return 0.
\* On failure: out_unlock_wim (unlock), out_close_wim (close the output),
\* out (being_compacted = 0), entered at the label the failure jumped to.
\* wimlib_overwrite() then returns the result, unless it is RESOURCE_ORDER:
\* then it gives up a compaction and else rebuilds through a temporary
\* file.
overwrite_wim_inplace_return(h) ==
    /\ wim[h].pc \in {"ip_unlock", "out_unlock_wim", "out_close_wim", "out"}
    /\ LET w0 == wim[h]
           unlocks == w0.pc \in {"ip_unlock", "out_unlock_wim"}
           w == [w0 EXCEPT !.locked_for_append = IF unlocks THEN FALSE ELSE @,
                           !.out_fd.open = IF w0.pc = "out" THEN @ ELSE FALSE,
                           !.being_compacted = IF w0.pc = "ip_unlock" THEN @ ELSE FALSE,
                           !.ret = IF w0.pc = "ip_unlock" THEN "SUCCESS" ELSE @]
       IN /\ flock_owner' = IF unlocks THEN unlock_wim_for_append(w0, flock_owner)
                            ELSE flock_owner
          /\ wim' = [wim EXCEPT ![h] =
               IF w.ret # "RESOURCE_ORDER" THEN Return(w, w.ret)
               ELSE IF UNSAFE_COMPACT \in w.ow_flags
               THEN Return(w, "COMPACTION_NOT_POSSIBLE")
               ELSE overwrite_wim_via_tmpfile(w, w.ow_flags)]
    /\ UNCHANGED <<files, path, rdescs, orig0, bvars>>

(***************************************************************************)
(* write_wim(), as called by overwrite_wim_via_tmpfile() through           *)
(* wimlib_write(): all images, one part, to the temporary file.            *)
(***************************************************************************)
pipable_default(w, write_flags) ==
    IF write_flags \cap {PIPABLE, NOT_PIPABLE} = {} /\ wim_is_pipable(w.hdr)
    THEN write_flags \cup {PIPABLE}
    ELSE write_flags

write_wim_flags_valid(write_flags) ==
    /\ ~({CHECK_INTEGRITY, NO_CHECK_INTEGRITY} \subseteq write_flags)
    /\ ~({PIPABLE, NOT_PIPABLE} \subseteq write_flags)
    /\ ~(UNSAFE_COMPACT \in write_flags)

write_wim(h) ==
    /\ wim[h].pc = "write_wim"
    /\ LET w == wim[h]
           f == pipable_default(w, integrity_default(w, w.write_flags))
           w1 == [w EXCEPT !.write_flags = f,
                           !.out_hdr = Header(IF PIPABLE \in f THEN "PWM" ELSE "WIM",
                                              FALSE, zero_reshdr, zero_reshdr,
                                              zero_reshdr, w.hdr.image_count)]
       IN IF ~write_wim_flags_valid(w.write_flags)
          THEN wim' = [wim EXCEPT ![h] =
                         [w EXCEPT !.pc = "tmp_ret", !.ret = "INVALID_PARAM"]]
          ELSE \E outcome \in PrepareOutcomes(w) :
                 wim' = [wim EXCEPT ![h] = AfterPrepare(w1, outcome, "ww_open", "tmp_ret")]
    /\ UNCHANGED <<files, path, flock_owner, rdescs, orig0, bvars>>

\* The head of the loop: open_wim_writable(O_TRUNC | O_CREAT | O_RDWR).
write_wim_open(h) ==
    /\ wim[h].pc = "ww_open"
    /\ LET w == wim[h]
           ino == TmpOf(h)
       IN \E ok \in BOOLEAN :
            /\ files' = IF ok
                        THEN [files EXCEPT ![ino] = [NoFile EXCEPT !.exists = TRUE]]
                        ELSE files
            /\ wim' = [wim EXCEPT ![h] =
                 IF ok THEN [w EXCEPT !.pc = "ww_hdr", !.wlog = <<>>, !.finalized = FALSE,
                                      !.out_fd = [ino |-> ino, offset |-> 0, open |-> TRUE]]
                 ELSE [w EXCEPT !.pc = "tmp_ret", !.ret = "OPEN"]]
    /\ UNCHANGED <<path, flock_owner, rdescs, orig0, bvars>>

\* Fault: the initial header marked WRITE_IN_PROGRESS whatever the output.
initial_hdr_in_progress(out_hdr, write_flags) == [out_hdr EXCEPT !.wip = TRUE]

\* The initial header: WRITE_IN_PROGRESS unless the output is pipable.
initial_hdr(out_hdr, write_flags) ==
    [out_hdr EXCEPT !.wip = ~(PIPABLE \in write_flags)]

write_wim_initial_header(h) ==
    /\ wim[h].pc = "ww_hdr"
    /\ LET w == wim[h]
           ino == w.out_fd.ino
       IN \E ok \in BOOLEAN, written \in BOOLEAN :
            /\ ok => written
            /\ files' = IF written
                        THEN [files EXCEPT ![ino].hdr = initial_hdr(w.out_hdr, w.write_flags)]
                        ELSE files
            /\ wim' = [wim EXCEPT ![h] =
                 LET w1 == IF written
                           THEN [Logged(w, "initial_hdr", 0, WIM_HEADER_DISK_SIZE)
                                    EXCEPT !.out_fd.offset = WIM_HEADER_DISK_SIZE]
                           ELSE w
                 IN IF ok
                    THEN [w1 EXCEPT !.pc = IF PIPABLE \in w.write_flags THEN "ww_xml"
                                           ELSE "ww_blobs"]
                    ELSE [w1 EXCEPT !.pc = "tmp_ret", !.ret = "WRITE"]]
    /\ UNCHANGED <<path, flock_owner, rdescs, orig0, bvars>>

\* Pipable output: the copy of the XML data that follows the header.
write_wim_initial_xml(h) ==
    /\ wim[h].pc = "ww_xml"
    /\ LET w == wim[h]
           ino == w.out_fd.ino
           off == w.out_fd.offset
           cs == XmlCells(w, h)
       IN \E n \in 0..Len(cs), ok \in BOOLEAN :
            /\ ok => n = Len(cs)
            /\ files' = [files EXCEPT ![ino] = FileWrite(@, off, SubSeq(cs, 1, n))]
            /\ wim' = [wim EXCEPT ![h] =
                 LET w1 == [Logged(w, "initial_xml", off, n) EXCEPT !.out_fd.offset = @ + n]
                 IN IF ok THEN [w1 EXCEPT !.pc = "ww_blobs"]
                    ELSE [w1 EXCEPT !.pc = "tmp_ret", !.ret = "WRITE"]]
    /\ UNCHANGED <<path, flock_owner, rdescs, orig0, bvars>>

(***************************************************************************)
(* overwrite_wim_via_tmpfile() after wimlib_write() has returned (write_wim *)
(* closes the output on its way out): unlink the temporary file on         *)
(* failure, else close the original and rename the temporary file over it. *)
(***************************************************************************)
\* Fault: the temporary file left behind.
tunlink_skipped(fs, tmp) == fs

\* tunlink(tmpfile)
tunlink(fs, tmp) == [fs EXCEPT ![tmp] = NoFile]

overwrite_wim_via_tmpfile_return(h) ==
    /\ wim[h].pc = "tmp_ret"
    /\ LET w == [wim[h] EXCEPT !.out_fd.open = FALSE]
           tmp == TmpOf(h)
       IN IF w.ret # "SUCCESS"
          THEN /\ files' = tunlink(files, tmp)
               /\ wim' = [wim EXCEPT ![h] = Return(w, w.ret)]
               /\ UNCHANGED path
          ELSE \E renamed \in BOOLEAN, progress \in {"SUCCESS", "ABORTED_BY_PROGRESS"} :
               /\ path' = IF renamed THEN tmp ELSE path
               /\ files' = IF renamed THEN [files EXCEPT ![path] = NoFile]
                           ELSE tunlink(files, tmp)
               /\ wim' = [wim EXCEPT ![h] =
                            Return(w, IF renamed THEN progress ELSE "RENAME")]
    /\ UNCHANGED <<flock_owner, rdescs, orig0, bvars>>

(***************************************************************************)
(* Overwriting through one handle: every way of calling wimlib_overwrite() *)
(* on a unpipable or pipable container (the choice of the strategy), and   *)
(* every layout with every choice of integrity table, compaction and       *)
(* fsync (the execution of the strategy).                                  *)
(***************************************************************************)
NoBlobs == <<>>
NoChunks == [pc |-> "off"]
NoSplit == [pc |-> "off"]
NoPlan == [pc |-> "off"]
NoRawCopy == [pc |-> "off"]
NoDecoder == [pc |-> "off"]
SubIdle == cc = NoChunks /\ sp = NoSplit /\ pl = NoPlan /\ rc = NoRawCopy
           /\ dec = NoDecoder

NoWriteBlobs == [pc |-> "off"]

StrategyInputs ==
    {HandleInput(flags, FALSE, 0, ctype_same, chunk_same) :
        flags \in SUBSET {REBUILD, SOFT_DELETE, PIPABLE, UNSAFE_COMPACT, RECOMPRESS,
                          CHECK_INTEGRITY},
        ctype_same \in BOOLEAN, chunk_same \in BOOLEAN}

\* The XML data grows only in the inputs without a modified image: with
\* one, the XML data is new anyway.
ExecutionInputs ==
    {HandleInput(flags, modified, grow, TRUE, TRUE) :
        flags \in SUBSET {CHECK_INTEGRITY, NO_CHECK_INTEGRITY, UNSAFE_COMPACT, FSYNC},
        modified \in BOOLEAN, grow \in 0..MaxXmlGrow} \
    {HandleInput(flags, TRUE, grow, TRUE, TRUE) :
        flags \in SUBSET {CHECK_INTEGRITY, NO_CHECK_INTEGRITY, UNSAFE_COMPACT, FSYNC},
        grow \in 1..MaxXmlGrow}

Closed == [OpenHandle(HandleInput({}, FALSE, 0, TRUE, TRUE), NoHdr, "off")
              EXCEPT !.ret = "NONE"]

InitFiles(f) == [i \in Inodes |-> IF i = "orig" THEN f ELSE NoFile]

InitOverwrite(f, L, owner, w1, w2) ==
    /\ files = InitFiles(f)
    /\ path = "orig"
    /\ flock_owner = owner
    /\ wim = [h \in Handles |-> IF h = 1 THEN w1 ELSE w2]
    /\ rdescs = L.res
    /\ orig0 = f
    /\ blobs = NoBlobs
    /\ wb = NoWriteBlobs
    /\ SubIdle

Init ==
    \/ \E inp \in StrategyInputs, magic \in {"WIM", "PWM"} :
         LET f == LayoutFile(NormalLayout, magic)
         IN InitOverwrite(f, NormalLayout, NoOwner, OpenHandle(inp, f.hdr, "ready"), Closed)
    \/ \E inp \in ExecutionInputs, L \in Layouts,
          owner \in {NoOwner, Ext} :
         LET f == LayoutFile(L, "WIM")
         IN /\ owner = Ext => L = NormalLayout
            /\ InitOverwrite(f, L, owner, OpenHandle(inp, f.hdr, "ready"), Closed)

Next ==
    \E h \in Handles :
    \/ wimlib_delete_image(h)
    \/ wimlib_overwrite(h)
    \/ overwrite_wim_inplace(h)
    \/ open_wim_writable(h)
    \/ lock_wim_for_append(h)
    \/ write_wim_header_flags(h)
    \/ filedes_seek(h)
    \/ write_file_data_blobs(h)
    \/ write_metadata_resources(h)
    \/ write_blob_table(h)
    \/ write_wim_xml_data(h)
    \/ write_checkpoint_header(h)
    \/ write_integrity_table(h)
    \/ write_wim_header(h)
    \/ finish_write_ftruncate(h)
    \/ finish_write_fsync(h)
    \/ close_wim_writable(h)
    \/ out_truncate(h)
    \/ out_restore_hdr(h)
    \/ overwrite_wim_inplace_return(h)
    \/ write_wim(h)
    \/ write_wim_open(h)
    \/ write_wim_initial_header(h)
    \/ write_wim_initial_xml(h)
    \/ overwrite_wim_via_tmpfile_return(h)

Spec == Init /\ [][Next]_vars

(***************************************************************************)
(* Overwriting through two handles opened on the same container, their     *)
(* steps interleaved.                                                      *)
(***************************************************************************)
FirstHandleInputs ==
    {HandleInput({CHECK_INTEGRITY}, FALSE, 0, TRUE, TRUE)}

SecondHandleInputs ==
    {HandleInput({UNSAFE_COMPACT}, TRUE, 0, TRUE, TRUE),
     HandleInput({PIPABLE}, FALSE, 0, TRUE, TRUE)}

InitTwo ==
    \E i1 \in FirstHandleInputs, i2 \in SecondHandleInputs :
        LET f == LayoutFile(NormalLayout, "WIM")
        IN InitOverwrite(f, NormalLayout, NoOwner,
                         OpenHandle(i1, f.hdr, "ready"), OpenHandle(i2, f.hdr, "ready"))

SpecTwo == InitTwo /\ [][Next]_vars

(***************************************************************************)
(* Properties of the overwrite model.                                      *)
(***************************************************************************)
Orig == files["orig"]

\* The handle has entered overwrite_wim_inplace() and not fallen back.
InPlace(h) ==
    /\ wim[h].tried = <<"inplace">>
    /\ wim[h].pc # "inplace"

Appending(h) == InPlace(h) /\ ~(UNSAFE_COMPACT \in wim[h].ow_flags)
Compacting(h) == InPlace(h) /\ UNSAFE_COMPACT \in wim[h].ow_flags
Rebuilding(h) == wim[h].tried # <<>> /\ wim[h].tried[Len(wim[h].tried)] = "tmpfile"

\* The units the header of the opened container refers to, directly or
\* through its blob table.
OldRegions ==
    {i \in 1..Len(orig0.bytes) :
        \/ \E r \in rdescs : InRes(i, r)
        \/ InRes(i, orig0.hdr.blob_table_reshdr)
        \/ InRes(i, orig0.hdr.xml_data_reshdr)
        \/ InRes(i, orig0.hdr.integrity_table_reshdr)}

OldRegionsIntact ==
    \A i \in OldRegions : i <= Len(Orig.bytes) /\ Orig.bytes[i] = orig0.bytes[i]

C2_Original ==
    \A h \in Handles :
        (/\ Appending(h)
         /\ wim[h].pc = "returned"
         /\ wim[h].ip_wrote
         /\ wim[h].ret # "SUCCESS") => FileLen(Orig) = FileLen(orig0)

InLockedSection(h) ==
    /\ wim[h].caller = "inplace"
    /\ wim[h].pc \in {"ip_flags", "ip_seek", "ip_blobs", "ip_meta", "fw_bt", "fw_xml",
                      "fw_chk", "fw_integ", "fw_hdr", "fw_trunc", "fw_fsync", "fw_close",
                      "ip_unlock", "out_truncate", "out_restore_hdr", "out_unlock_wim"}

\* C4 as stated: no write without the lock, and, whenever the lock could
\* not be acquired, "already locked" and an unmodified file.
C4_Original ==
    \A h \in Handles :
        /\ InLockedSection(h) => flock_owner = h
        /\ wim[h].flock_errno \notin {"NONE", "OK"} =>
              /\ ~wim[h].ip_wrote
              /\ wim[h].ret = "ALREADY_LOCKED"

\* C4, amended: the writes happen under the lock unless flock() failed for
\* a reason other than the lock being held elsewhere; when flock() reports
\* the lock held elsewhere (EWOULDBLOCK) the call returns "already locked"
\* without having written.
C4_LockOrForeignError ==
    \A h \in Handles :
        /\ InLockedSection(h) => (flock_owner = h \/ wim[h].flock_errno = "ENOLCK")
        /\ wim[h].flock_errno = "EWOULDBLOCK" =>
              /\ ~wim[h].ip_wrote
              /\ wim[h].ret = "ALREADY_LOCKED"
              /\ ~InLockedSection(h)

C4_Witness ==
    \E h \in Handles :
        /\ wim[h].pc = "returned"
        /\ wim[h].ret = "ALREADY_LOCKED"
        /\ flock_owner = Ext
        /\ Orig = orig0

\* The handle is between its first and its last in-place write.
Writing(h) ==
    /\ wim[h].caller = "inplace"
    /\ wim[h].ip_wrote
    /\ wim[h].pc \in {"ip_seek", "ip_blobs", "ip_meta", "fw_bt", "fw_xml", "fw_chk",
                      "fw_integ", "fw_hdr", "fw_trunc", "out_truncate", "out_restore_hdr"}

\* C5 as stated: at most one handle is between its first and last write;
\* a handle holds the lock throughout, and not any more once it returned.
C5_Original ==
    /\ ~(Writing(1) /\ Writing(2))
    /\ \A h \in Handles :
          /\ Writing(h) => flock_owner = h
          /\ wim[h].pc = "returned" => flock_owner # h

\* C5, amended: the same among the handles whose flock() did not fail for a
\* reason other than the lock being held elsewhere.
C5_AmongLockHolders ==
    /\ (Writing(1) /\ Writing(2)) =>
          (wim[1].flock_errno = "ENOLCK" \/ wim[2].flock_errno = "ENOLCK")
    /\ \A h \in Handles :
          /\ (Writing(h) /\ wim[h].flock_errno # "ENOLCK") => flock_owner = h
          /\ wim[h].pc = "returned" => flock_owner # h

C5_Witness ==
    /\ Writing(1)
    /\ flock_owner = 1
    /\ wim[2].pc = "returned"
    /\ wim[2].ret = "ALREADY_LOCKED"

\* A step changes the data of the original file.
DataStep == Orig.bytes' # Orig.bytes

\* A step clears the WRITE_IN_PROGRESS flag of the original file's header.
ClearStep == Orig.hdr.wip /\ ~Orig.hdr.wip'

Rank(k) ==
    CASE k \in {"initial_hdr", "initial_xml"} -> 0
      [] k \in {"res", "meta"} -> 1
      [] k = "bt" -> 2
      [] k \in {"xml", "chk_hdr"} -> 3
      [] k = "integ" -> 4
      [] k = "hdr" -> 5

LoggedAt(log, k) == {Reshdr(log[i].off, log[i].size) : i \in {j \in 1..Len(log) : log[j].k = k}}

WrittenHdr(h) ==
    LET f == files[wim[h].out_fd.ino]
    IN IF PIPABLE \in wim[h].write_flags THEN f.end_hdr ELSE f.hdr

\* C7: once the final header of a write is on disk, the writes of that
\* pass were made in the order resources, blob table, XML data, integrity
\* table, final header, and the header refers to the tables where they
\* were written.
C7_WriteOrder ==
    \A h \in Handles :
        (wim[h].finalized /\ files[wim[h].out_fd.ino].exists) =>
            LET log == wim[h].wlog
            IN /\ \A i, j \in 1..Len(log) : i < j => Rank(log[i].k) <= Rank(log[j].k)
               /\ log[Len(log)].k = "hdr"
               /\ LoggedAt(log, "xml") = {WrittenHdr(h).xml_data_reshdr}
               /\ LoggedAt(log, "bt") \subseteq {WrittenHdr(h).blob_table_reshdr}
               /\ LoggedAt(log, "integ") =
                     IF wim_has_integrity_table(WrittenHdr(h))
                     THEN {WrittenHdr(h).integrity_table_reshdr} ELSE {}

C7_Witness ==
    \E h \in Handles :
        /\ wim[h].finalized
        /\ wim[h].pc = "fw_close"
        /\ {wim[h].wlog[i].k : i \in 1..Len(wim[h].wlog)} =
              {"res", "meta", "bt", "xml", "integ", "hdr"}

\* The conditions C8 lists for a rebuild.
RebuildRequired(w) ==
    \/ REBUILD \in w.call_flags
    \/ w.image_deletion_occurred /\ ~(SOFT_DELETE \in w.call_flags)
    \/ wim_is_pipable(w.hdr)
    \/ PIPABLE \in w.call_flags
    \/ ~w.out_ctype_same
    \/ ~w.out_chunk_same

Called(h) == wim[h].pc \notin {"off", "ready"}

Overlap(S) ==
    \E a, b \in S : a # b /\ a.off < ResEnd(b) /\ b.off < ResEnd(a)

MaxContents == 3
MaxRefcnt == 2

BlobIds == {1, 2, 3}
NoBlob == 0

Contents == 1..MaxContents
SizeOf(c) == (c + 1) \div 2

\* A descriptor before the write: hashed descriptors are in the blob table
\* of the WIMStruct (in_table), unhashed ones on the list of their image.
\* freed and streamed (hashed only while it was written) record history.
Descriptor(c, hashed, in_wim, referenced, refcnt) ==
    [hash |-> c, size |-> SizeOf(c), unhashed |-> ~hashed, in_table |-> hashed,
     in_wim |-> in_wim, referenced |-> referenced, refcnt |-> refcnt,
     will_be_in_output_wim |-> FALSE, out_refcnt |-> 0, unique_size |-> FALSE,
     freed |-> FALSE, streamed |-> FALSE]

Descriptors ==
    {Descriptor(c, TRUE, in_wim, referenced, 1) :
        c \in Contents, in_wim \in BOOLEAN, referenced \in BOOLEAN}
    \cup {Descriptor(c, FALSE, FALSE, TRUE, n) : c \in Contents, n \in 1..MaxRefcnt}

\* The blob table holds at most one descriptor per hash.
BlobTableOK(bs) ==
    \A a, b \in BlobIds :
        (a # b /\ bs[a].in_table /\ bs[b].in_table) => bs[a].hash # bs[b].hash

InitBlobs ==
    /\ blobs \in [BlobIds -> Descriptors]
    /\ BlobTableOK(blobs)
    /\ \E append \in BOOLEAN :
         wb = [pc |-> "prepare", append |-> append, blob_list |-> {}, cur |-> NoBlob,
               compressing |-> NoBlob, blob_table_list |-> {}, out_table |-> {}]
    /\ files = InitFiles(NoFile)
    /\ path = "orig"
    /\ flock_owner = NoOwner
    /\ wim = [h \in Handles |-> Closed]
    /\ rdescs = {}
    /\ orig0 = NoFile
    /\ SubIdle

\* Fault: no blob is filtered.
blob_filtered_never(b, append) == FALSE

\* blob_filtered() for a write without SKIP_EXTERNAL_WIMS: soft-filtered
\* when appending to the WIM the blob is in.
blob_filtered(b, append) == append /\ b.in_wim

\* Fault: only the descriptor found in the table is marked.
blob_size_table_insert_marking_one(bs, tab, id) ==
    IF \E o \in tab : bs[o].size = bs[id].size
    THEN [x \in BlobIds |->
            IF x \in tab /\ bs[x].size = bs[id].size /\ x # id
            THEN [bs[x] EXCEPT !.unique_size = FALSE]
            ELSE IF x = id THEN [bs[x] EXCEPT !.unique_size = TRUE] ELSE bs[x]]
    ELSE [bs EXCEPT ![id].unique_size = TRUE]

\* blob_size_table_insert(): the descriptors after id has been inserted
\* into the table tab of descriptors inserted before.
blob_size_table_insert(bs, tab, id) ==
    IF \E o \in tab : bs[o].size = bs[id].size
    THEN [x \in BlobIds |->
            IF (x \in tab /\ bs[x].size = bs[id].size) \/ x = id
            THEN [bs[x] EXCEPT !.unique_size = FALSE] ELSE bs[x]]
    ELSE [bs EXCEPT ![id].unique_size = TRUE]

\* determine_blob_size_uniquity() over the blob list, a descriptor at a time.
RECURSIVE determine_blob_size_uniquity(_, _, _)
determine_blob_size_uniquity(bs, tab, todo) ==
    IF todo = {} THEN bs
    ELSE LET id == CHOOSE x \in todo : \A y \in todo : x <= y
         IN determine_blob_size_uniquity(blob_size_table_insert(bs, tab, id),
                                         tab \cup {id}, todo \ {id})

\* prepare_unfiltered_list_of_blobs_in_output_wim(): with STREAMS_OK (an
\* append) every descriptor is taken, else those the images refer to.
unfiltered_blob_list(bs, append) ==
    {id \in BlobIds : append \/ bs[id].referenced}

prepare_blob_list_for_write ==
    /\ wb.pc = "prepare"
    /\ LET list == unfiltered_blob_list(blobs, wb.append)
           referenced == [id \in BlobIds |->
                            [blobs[id] EXCEPT
                                !.will_be_in_output_wim = id \in list,
                                !.out_refcnt = IF id \in list THEN blobs[id].refcnt ELSE 0]]
           sized == determine_blob_size_uniquity(referenced, {}, list)
       IN /\ blobs' = sized
          /\ wb' = [wb EXCEPT !.pc = "read",
                              !.blob_list = {id \in list :
                                               ~blob_filtered(sized[id], wb.append)}]
    /\ UNCHANGED <<ovars, svars>>

\* hash_unhashed_blob(): the descriptor of the table with the hash of the
\* blob, or the blob itself, which then enters the table.
hash_unhashed_blob(bs, id) ==
    IF \E o \in BlobIds : o # id /\ bs[o].in_table /\ ~bs[o].freed /\ bs[o].hash = bs[id].hash
    THEN CHOOSE o \in BlobIds :
            o # id /\ bs[o].in_table /\ ~bs[o].freed /\ bs[o].hash = bs[id].hash
    ELSE id

\* Fault: the output reference count of the dropped descriptor lost.
duplicate_out_refcnt_lost(new_blob, blob) == new_blob.out_refcnt

\* write_blob_begin_read(): new_blob->out_refcnt += blob->out_refcnt.
duplicate_out_refcnt(new_blob, blob) == new_blob.out_refcnt + blob.out_refcnt

write_blob_begin_read(id) ==
    /\ wb.pc = "read"
    /\ wb.cur = NoBlob
    /\ id \in wb.blob_list
    /\ LET b == blobs[id]
           new == IF b.unhashed /\ ~b.unique_size THEN hash_unhashed_blob(blobs, id) ELSE id
           hashed == IF b.unhashed /\ ~b.unique_size /\ new = id
                     THEN [blobs EXCEPT ![id].unhashed = FALSE, ![id].in_table = TRUE]
                     ELSE blobs
       IN IF new = id
          THEN /\ blobs' = hashed
               /\ wb' = [wb EXCEPT !.blob_list = @ \ {id}, !.cur = id, !.compressing = id]
          ELSE IF blobs[new].will_be_in_output_wim \/ blob_filtered(blobs[new], wb.append)
          THEN /\ blobs' = [blobs EXCEPT
                              ![new].out_refcnt =
                                  IF blobs[new].will_be_in_output_wim
                                  THEN duplicate_out_refcnt(blobs[new], b) ELSE @,
                              ![id].freed = TRUE]
               /\ wb' = [wb EXCEPT !.blob_list = @ \ {id}]
          ELSE /\ blobs' = [blobs EXCEPT
                              ![id].will_be_in_output_wim = FALSE,
                              ![new].out_refcnt = b.out_refcnt,
                              ![new].will_be_in_output_wim = TRUE]
               /\ wb' = [wb EXCEPT !.blob_list = @ \ {id}, !.cur = id, !.compressing = new]
    /\ UNCHANGED <<ovars, svars>>

\* write_blob_end_read() with the status of the read, and the completion
\* of the write of the blob, which puts it on the blob table list.
write_blob_end_read ==
    /\ wb.pc = "read"
    /\ wb.cur # NoBlob
    /\ \E status \in {"SUCCESS", "READ"} :
         LET id == wb.cur
             b == blobs[id]
         IN /\ blobs' = IF ~b.will_be_in_output_wim
                        THEN [blobs EXCEPT ![id].freed = TRUE]
                        ELSE IF status = "SUCCESS" /\ b.unhashed
                        THEN [blobs EXCEPT ![id].unhashed = FALSE, ![id].in_table = TRUE,
                                           ![id].streamed = TRUE]
                        ELSE blobs
            /\ wb' = IF status = "SUCCESS"
                     THEN [wb EXCEPT !.cur = NoBlob, !.compressing = NoBlob,
                                     !.blob_table_list = @ \cup {wb.compressing}]
                     ELSE [wb EXCEPT !.pc = "failed", !.cur = NoBlob]
    /\ UNCHANGED <<ovars, svars>>

\* write_blob_table(): the descriptors of the blobs written and, for an
\* append, those of the blobs the WIM already held.
write_blob_table_list ==
    /\ wb.pc = "read"
    /\ wb.cur = NoBlob
    /\ wb.blob_list = {}
    /\ wb' = [wb EXCEPT !.pc = "done",
                        !.out_table = wb.blob_table_list \cup
                            (IF wb.append
                             THEN {id \in BlobIds : blobs[id].in_table /\ blobs[id].in_wim}
                             ELSE {})]
    /\ UNCHANGED <<blobs, ovars, svars>>

NextBlobs ==
    \/ prepare_blob_list_for_write
    \/ \E id \in BlobIds : write_blob_begin_read(id)
    \/ write_blob_end_read
    \/ write_blob_table_list

SpecBlobs == InitBlobs /\ [][NextBlobs]_vars

\* C10: after a successful write no two distinct descriptors of the blob
\* table written have the same hash.
C10_UniqueHashes ==
    wb.pc = "done" =>
        \A a, b \in wb.out_table : a # b => blobs[a].hash # blobs[b].hash

\* A write in which a blob of unique size was written without being hashed
\* first, and another unhashed blob was found to be a duplicate.
C10_Witness ==
    /\ wb.pc = "done"
    /\ \E a \in wb.out_table : blobs[a].streamed
    /\ \E d \in BlobIds : blobs[d].freed /\ ~blobs[d].in_table

\* The descriptors of the write set, and the sum of their output
\* reference counts.
InWriteSet(b) == b.will_be_in_output_wim /\ ~b.freed

RECURSIVE SumOutRefcnt(_, _)
SumOutRefcnt(bs, ids) ==
    IF ids = {} THEN 0
    ELSE LET id == CHOOSE x \in ids : TRUE
         IN (IF InWriteSet(bs[id]) THEN bs[id].out_refcnt ELSE 0)
            + SumOutRefcnt(bs, ids \ {id})

\* write_blob_begin_read(id) is about to find that the unhashed blob id has
\* the hash of a descriptor that is in the write set.
DuplicateInWriteSet(id) ==
    /\ wb.pc = "read"
    /\ wb.cur = NoBlob
    /\ id \in wb.blob_list
    /\ blobs[id].unhashed
    /\ ~blobs[id].unique_size
    /\ \E o \in BlobIds :
         /\ o # id
         /\ blobs[o].in_table /\ ~blobs[o].freed
         /\ blobs[o].hash = blobs[id].hash
         /\ blobs[o].will_be_in_output_wim

\* C20: the step of write_blob_begin_read() that finds such a duplicate
\* takes the blob off the write list without making it the blob being read,
\* frees its descriptor, adds its out_refcnt to that of the descriptor
\* found and leaves the sum of out_refcnt over the write set as it was; and
\* a descriptor that was dropped is never on the blob table list.
C20_DuplicateSkipped ==
    /\ [](\A id \in BlobIds :
            (blobs # NoBlobs /\ blobs[id].freed) =>
                id \notin wb.blob_table_list \cup wb.out_table)
    /\ [][\A id \in BlobIds :
            (DuplicateInWriteSet(id) /\ id \notin wb'.blob_list) =>
                /\ wb'.cur = NoBlob
                /\ wb'.compressing = wb.compressing
                /\ wb'.blob_table_list = wb.blob_table_list
                /\ blobs'[id].freed
                /\ \E o \in BlobIds \ {id} :
                     /\ blobs[o].hash = blobs[id].hash
                     /\ blobs'[o].out_refcnt =
                           blobs[o].out_refcnt + blobs[id].out_refcnt
                /\ SumOutRefcnt(blobs', BlobIds) = SumOutRefcnt(blobs, BlobIds)]_vars

C20_Witness ==
    /\ blobs # NoBlobs
    /\ \E d, o \in BlobIds :
         /\ d # o
         /\ blobs[d].freed /\ ~blobs[d].in_table
         /\ blobs[d].refcnt = 2
         /\ blobs[o].hash = blobs[d].hash
         /\ InWriteSet(blobs[o])
         /\ blobs[o].out_refcnt = blobs[o].refcnt + blobs[d].refcnt
         /\ o \in wb.out_table

\* The data of the blob is in the container that is appended to: a
\* descriptor of its blob table located in it has the hash.
ResidesInTarget(id) ==
    \E o \in BlobIds : blobs[o].in_table /\ blobs[o].in_wim /\ blobs[o].hash = blobs[id].hash

\* C22: when an append has written its blob table, no blob written has data
\* that was in the container already, every blob of the blob table that is
\* located in the container is in the blob table written, and for every
\* other blob a descriptor with its data was written.
C22_AppendFilter ==
    (wb.pc = "done" /\ wb.append) =>
        /\ \A id \in wb.blob_table_list : ~blobs[id].in_wim /\ ~ResidesInTarget(id)
        /\ \A id \in BlobIds :
              (blobs[id].in_table /\ blobs[id].in_wim) => id \in wb.out_table
        /\ \A id \in BlobIds :
              ~ResidesInTarget(id) =>
                  \E w \in wb.blob_table_list : blobs[w].hash = blobs[id].hash

\* An append that kept a blob of the container without writing it, wrote a
\* new one, and dropped an unhashed blob whose data the container held.
C22_Witness ==
    /\ wb.pc = "done" /\ wb.append
    /\ \E id \in wb.out_table \ wb.blob_table_list : blobs[id].in_wim
    /\ \E id \in wb.blob_table_list : ~blobs[id].in_wim
    /\ \E d \in BlobIds : blobs[d].freed /\ ResidesInTarget(d)

(***************************************************************************)
(* The compress-and-write loop of write_blobs(): the reader hands the      *)
(* data of each blob to write_blob_process_chunk() in pieces, which fills  *)
(* chunk buffers of the chunk compressor; compressed chunks are retrieved  *)
(* and written by prepare_chunk_buffer() and finish_remaining_chunks().    *)
(* Sizes are in units.  The chunk compressor itself is not part of         *)
(* write.c: it has a fixed number of buffers, its workers finish the       *)
(* submitted chunks in any order, and it hands results back in the order   *)
(* of submission; a chunk that does not get smaller comes back as it was.  *)
(* The data is counted in units of Unit bytes, offsets in the output file  *)
(* and the sizes of a resource header in bytes.  The sizes that are 32     *)
(* bits wide in the code are SizeBits wide here, so that resources on both *)
(* sides of the limit are written.  submitted, written, out_of_order,      *)
(* asked_empty, num_blobs, discarded and the fields of a resource header   *)
(* from blob on record history for the properties.                         *)
(***************************************************************************)
MaxChunkBuffers == 2
OutChunkSize == 2
MaxBlobSize == 6
MaxPiece == 2
MaxBlobsWritten == 2
MaxSolidBlobs == 3
Unit == 12
SizeBits == 6

\* sizeof(struct pwm_chunk_hdr), put before each chunk of a pipable
\* resource, and sizeof(struct alt_chunk_table_header_disk), put before the
\* chunk table of a solid resource.
PwmChunkHdrSize == 4
AltChunkTableHeaderSize == 16

UINT32_MAX == 2^SizeBits - 1

Bytes(size) == size * Unit

DIV_ROUND_UP(n, d) == (n + d - 1) \div d

\* get_chunk_entry_size(): the width in bytes of an entry of the chunk
\* table of a resource of the given uncompressed size; the entries of a
\* solid resource are chunk sizes and always narrow.
get_chunk_entry_size(res_size, is_alt) ==
    IF res_size <= UINT32_MAX \/ is_alt THEN 4 ELSE 8

\* cpu_to_le32(), cpu_to_le64() of a value held in a variable of that width.
Stored(value, width) == IF width = 4 THEN value % (UINT32_MAX + 1) ELSE value

BEGIN_BLOB_STATUS_SKIP_BLOB == "SKIP_BLOB"

WIM_RESHDR_FLAG_COMPRESSED == "COMPRESSED"
WIM_RESHDR_FLAG_SOLID == "SOLID"

BlobSizeLists == UNION {[1..n -> 1..MaxBlobSize] : n \in 1..MaxBlobsWritten}

\* Longer lists of small blobs, for a solid resource.
SolidBlobSizeLists == [1..MaxSolidBlobs -> 1..OutChunkSize]

NoReshdr == [flags |-> {}]

\* Fault: the array of chunk sizes is one entry short of the chunks
\* expected.
chunk_csizes_new_length_short(expected_num_chunks) == expected_num_chunks - 1

\* begin_chunk_table(): u64 new_length = expected_num_chunks + 50.
chunk_csizes_new_length(expected_num_chunks) == expected_num_chunks + 50

\* begin_chunk_table(): the chunk sizes are collected from the start, and
\* unless the output is pipable room for the chunk table is written first.
begin_chunk_table(c, res_expected_size) ==
    LET expected_num_chunks == DIV_ROUND_UP(res_expected_size, Bytes(OutChunkSize))
        num_alloc_chunks ==
            IF expected_num_chunks > c.num_alloc_chunks
            THEN chunk_csizes_new_length(expected_num_chunks)
            ELSE c.num_alloc_chunks
        expected_num_chunk_entries ==
            IF c.solid THEN expected_num_chunks ELSE expected_num_chunks - 1
        reserve_size ==
            expected_num_chunk_entries
                * get_chunk_entry_size(res_expected_size, c.solid)
            + (IF c.solid THEN AltChunkTableHeaderSize ELSE 0)
    IN [c EXCEPT !.chunk_index = 0,
                 !.chunk_csizes = <<>>,
                 !.num_alloc_chunks = num_alloc_chunks,
                 !.out_offset = IF c.pipable THEN @ ELSE @ + reserve_size]

\* begin_write_resource(); res_expected_size in units.
begin_write_resource(c, res_expected_size) ==
    LET c1 == IF c.compressor
              THEN begin_chunk_table(c, Bytes(res_expected_size)) ELSE c
    IN [c1 EXCEPT !.chunks_start_offset = c1.out_offset,
                  !.cur_write_blob_offset = 0,
                  !.cur_write_res_size = res_expected_size]

\* write_blobs(), before the blobs are read: the solid resource that takes
\* all of them is begun with their total size.
write_blobs_begin(c) ==
    IF c.solid THEN begin_write_resource(c, SeqSum(c.todo)) ELSE c

\* blob_is_in_file(); file_inode: the file each blob of the list is a
\* stream of, 0 for a blob that is not located in a file.
blob_is_in_file(file_inode, blob) == file_inode[blob] # 0

\* init_done_with_file_info(): each blob of the list that is located in a
\* file may send the message, and each file counts its blobs that may.
init_done_with_file_info(c, file_inode) ==
    [c EXCEPT !.file_inode = file_inode,
              !.may_send_done_with_file =
                  [b \in 1..c.num_blobs |-> blob_is_in_file(file_inode, b)],
              !.i_num_remaining_streams =
                  [f \in 1..c.num_blobs |->
                      Cardinality({b \in 1..c.num_blobs : file_inode[b] = f})]]

\* write_blobs(): memset(&ctx, 0, sizeof(ctx)), the flags and the
\* compressor set up, and, with SEND_DONE_WITH_FILE,
\* init_done_with_file_info() called on the list.
write_blobs_ctx(sizes, solid, compressor, n, pipable, in_solid_wim, send_done_with_file, file_inode) ==
    LET c == [pc |-> "idle", todo |-> sizes, solid |-> solid,
              compressor |-> compressor, num_buffers |-> n,
              pipable |-> pipable, in_solid_wim |-> in_solid_wim,
              blobs_being_compressed |-> <<>>, blobs_in_solid_resource |-> <<>>,
              blob_table_list |-> <<>>, solid_reshdr |-> NoReshdr,
              out_offset |-> WIM_HEADER_DISK_SIZE, chunks_start_offset |-> 0,
              cur_write_blob_offset |-> 0, cur_write_res_size |-> 0,
              chunk_index |-> 0, chunk_csizes |-> <<>>, num_alloc_chunks |-> 0,
              status |-> "NONE",
              cur_read_blob_size |-> 0, cur_read_blob_offset |-> 0,
              will_be_in_output_wim |-> TRUE,
              piece |-> 0, cur_chunk_buf |-> FALSE, cur_chunk_buf_filled |-> 0,
              cur_chunk_buf_blobs |-> {},
              outstanding |-> <<>>, submitted |-> 0, written |-> <<>>,
              num_blobs |-> Len(sizes), discarded |-> {},
              send_done_with_file |-> send_done_with_file,
              file_inode |-> [b \in 1..Len(sizes) |-> 0],
              may_send_done_with_file |-> [b \in 1..Len(sizes) |-> FALSE],
              i_num_remaining_streams |-> [f \in 1..Len(sizes) |-> 0],
              done_with_file |-> <<>>,
              out_of_order |-> FALSE, asked_empty |-> FALSE, ret |-> "NONE"]
    IN write_blobs_begin(IF send_done_with_file
                         THEN init_done_with_file_info(c, file_inode)
                         ELSE c)

InitChunks ==
    /\ \E sizes \in BlobSizeLists \cup SolidBlobSizeLists,
          solid \in BOOLEAN, compressor \in BOOLEAN,
          n \in 1..MaxChunkBuffers, pipable \in BOOLEAN, in_solid_wim \in BOOLEAN :
         /\ solid => compressor /\ ~pipable
         /\ sizes \in SolidBlobSizeLists \ BlobSizeLists => solid
         /\ ~compressor => n = 1 /\ ~in_solid_wim
         /\ cc = write_blobs_ctx(sizes, solid, compressor, n, pipable,
                                     in_solid_wim, FALSE,
                                     [b \in 1..Len(sizes) |-> 0])
    /\ files = InitFiles(NoFile)
    /\ path = "orig"
    /\ flock_owner = NoOwner
    /\ wim = [h \in Handles |-> Closed]
    /\ rdescs = {}
    /\ orig0 = NoFile
    /\ blobs = NoBlobs
    /\ wb = NoWriteBlobs
    /\ sp = NoSplit
    /\ pl = NoPlan
    /\ rc = NoRawCopy
    /\ dec = NoDecoder

\* get_chunk_buffer(): a buffer is free unless all of them are being
\* filled or hold a chunk whose result has not been retrieved.
get_chunk_buffer(c) ==
    Len(c.outstanding) + (IF c.cur_chunk_buf THEN 1 ELSE 0) < c.num_buffers

\* signal_chunk_filled(): the buffer being filled is submitted.
signal_chunk_filled(c) ==
    [c EXCEPT !.outstanding = Append(@, [id |-> c.submitted + 1,
                                         usize |-> c.cur_chunk_buf_filled,
                                         blobs |-> c.cur_chunk_buf_blobs,
                                         csize |-> 0,
                                         done |-> FALSE]),
              !.submitted = @ + 1,
              !.cur_chunk_buf = FALSE,
              !.cur_chunk_buf_filled = 0,
              !.cur_chunk_buf_blobs = {}]

\* Fault: results handed back in the order of completion.
get_compression_result_as_completed(outstanding) ==
    {i \in 1..Len(outstanding) : outstanding[i].done}

\* get_compression_result(): the outstanding chunk it can return now: the
\* one submitted first, once a worker has finished it.
get_compression_result(outstanding) ==
    {i \in {1} : i <= Len(outstanding) /\ outstanding[i].done}

RemoveAt(q, i) == SubSeq(q, 1, i - 1) \o SubSeq(q, i + 1, Len(q))

\* Fault: the entries hold the sizes of the chunks.
chunk_table_sizes(chunk_csizes, i, actual_num_chunk_entries, offset, width) ==
    [k \in 1..actual_num_chunk_entries |-> chunk_csizes[k]]

\* end_chunk_table(), non-solid: u32 or u64 offset = chunk_csizes[0], and
\* for each entry i: entries[i] = offset; offset += chunk_csizes[i + 1].
\* Here the entries are numbered from 1.
RECURSIVE chunk_table_offsets(_, _, _, _, _)
chunk_table_offsets(chunk_csizes, i, actual_num_chunk_entries, offset, width) ==
    IF i > actual_num_chunk_entries THEN <<>>
    ELSE <<Stored(offset, width)>>
         \o chunk_table_offsets(chunk_csizes, i + 1, actual_num_chunk_entries,
                                Stored(offset + chunk_csizes[i + 1], width), width)

\* end_chunk_table(): the chunk table is made from the chunk sizes and
\* written after the chunks (pipable) or into the room before them.
end_chunk_table(c, res_actual_size) ==
    LET actual_num_chunks == c.chunk_index
        actual_num_chunk_entries ==
            IF c.solid THEN actual_num_chunks ELSE actual_num_chunks - 1
        chunk_entry_size == get_chunk_entry_size(res_actual_size, c.solid)
        entries ==
            IF c.solid
            THEN [i \in 1..actual_num_chunk_entries |->
                     Stored(c.chunk_csizes[i], chunk_entry_size)]
            ELSE chunk_table_offsets(c.chunk_csizes, 1, actual_num_chunk_entries,
                                     Stored(c.chunk_csizes[1], chunk_entry_size),
                                     chunk_entry_size)
        chunk_table_size == actual_num_chunk_entries * chunk_entry_size
        chunk_table_offset == c.chunks_start_offset - chunk_table_size
        res_end_offset ==
            IF c.pipable THEN c.out_offset + chunk_table_size ELSE c.out_offset
        res_start_offset ==
            IF c.pipable THEN c.chunks_start_offset
            ELSE IF c.solid THEN chunk_table_offset - AltChunkTableHeaderSize
            ELSE chunk_table_offset
    IN [entries |-> entries,
        chunk_entry_size |-> chunk_entry_size,
        res_start_offset |-> res_start_offset,
        res_store_size |-> res_end_offset - res_start_offset,
        end_offset |-> res_end_offset]

\* end_write_resource(): the resource header of what was written since
\* begin_write_resource(); with a compressor the chunk table is part of the
\* resource.
end_write_resource(c) ==
    LET res_uncompressed_size == Bytes(c.cur_write_res_size)
        table == IF c.compressor
                 THEN end_chunk_table(c, res_uncompressed_size)
                 ELSE [entries |-> <<>>,
                       chunk_entry_size |-> 0,
                       res_start_offset |-> c.chunks_start_offset,
                       res_store_size |-> c.out_offset - c.chunks_start_offset,
                       end_offset |-> c.out_offset]
    IN [size_in_wim |-> table.res_store_size,
        uncompressed_size |-> res_uncompressed_size,
        offset_in_wim |-> table.res_start_offset,
        flags |-> {},
        blob |-> 0,
        chunks |-> c.chunk_index,
        chunk_csizes |-> c.chunk_csizes,
        chunk_table |-> table.entries,
        chunk_entry_size |-> table.chunk_entry_size,
        written_size |-> table.res_store_size,
        written_offset |-> table.res_start_offset,
        end_offset |-> table.end_offset,
        rewritten |-> FALSE,
        kept |-> FALSE]

\* Fault: a resource that did not get smaller is left compressed.
should_rewrite_blob_uncompressed_never(c, blob, reshdr) == FALSE

\* should_rewrite_blob_uncompressed()
should_rewrite_blob_uncompressed(c, blob, reshdr) ==
    IF reshdr.size_in_wim < reshdr.uncompressed_size THEN FALSE
    ELSE IF ~c.compressor THEN FALSE
    ELSE IF c.pipable THEN FALSE
    ELSE IF c.in_solid_wim /\ Bytes(blob.size) # reshdr.size_in_wim THEN FALSE
    ELSE TRUE

\* write_blob_uncompressed(); rewritten: the output could be positioned at
\* the start of the resource and the data be read back and written there.
\* If not, the output is left or put back at the end of the compressed
\* resource, which is kept.
write_blob_uncompressed(blob, reshdr, rewritten) ==
    IF rewritten
    THEN [reshdr EXCEPT !.size_in_wim = Bytes(blob.size),
                        !.flags = @ \ {WIM_RESHDR_FLAG_COMPRESSED,
                                       WIM_RESHDR_FLAG_SOLID},
                        !.end_offset = reshdr.offset_in_wim + Bytes(blob.size),
                        !.rewritten = TRUE]
    ELSE [reshdr EXCEPT !.kept = TRUE]

\* Fault: a single chunk stored as it is keeps its compressed flag.
single_chunk_stored_never(c, reshdr) == FALSE

\* maybe_rewrite_blob_uncompressed(): if (ctx->chunk_index == 1 && ...).
single_chunk_stored(c, reshdr) ==
    c.chunk_index = 1 /\ reshdr.size_in_wim = reshdr.uncompressed_size

\* maybe_rewrite_blob_uncompressed()
maybe_rewrite_blob_uncompressed(c, blob, reshdr, rewritten) ==
    IF ~should_rewrite_blob_uncompressed(c, blob, reshdr) THEN reshdr
    ELSE IF single_chunk_stored(c, reshdr)
    THEN [reshdr EXCEPT !.flags = @ \ {WIM_RESHDR_FLAG_COMPRESSED}]
    ELSE write_blob_uncompressed(blob, reshdr, rewritten)

\* read_blob_list(): the blob before has been read to its end, or was
\* skipped.
blob_read_over(c) ==
    \/ c.status = BEGIN_BLOB_STATUS_SKIP_BLOB
    \/ c.cur_read_blob_offset = c.cur_read_blob_size

\* read_blob_list(): the blob of the list it has come to.
cur_read_blob(c) == c.num_blobs - Len(c.todo)

\* The blobs that are streams of the file and are neither completely
\* written nor discarded: those not begun, a duplicate whose descriptor
\* gave way to another and whose data is still being read, and those
\* waiting to be written under their own descriptor, which a resource that
\* does not get smaller reads again.  (The descriptor that took the place
\* of a duplicate has may_send_done_with_file = 0 and its own location.)
PendingBlobs(c, inode) ==
    {b \in 1..c.num_blobs :
        /\ c.file_inode[b] = inode
        /\ \/ b > cur_read_blob(c)
           \/ /\ b = cur_read_blob(c)
              /\ ~c.will_be_in_output_wim
              /\ ~blob_read_over(c)
           \/ /\ c.may_send_done_with_file[b]
              /\ \E i \in 1..Len(c.blobs_being_compressed) :
                    c.blobs_being_compressed[i].id = b}

\* Fault: the message goes out with each blob of the file.
more_streams_remain_never(i_num_remaining_streams) == FALSE

\* do_done_with_blob(): if (--inode->i_num_remaining_streams > 0) return 0.
more_streams_remain(i_num_remaining_streams) == i_num_remaining_streams > 0

\* do_done_with_blob(); may_send: blob->may_send_done_with_file.  The
\* message is recorded with the blobs of the file still pending when it
\* is sent.
do_done_with_blob(c, blob, may_send) ==
    IF ~may_send THEN c
    ELSE LET inode == c.file_inode[blob]
             c1 == [c EXCEPT !.i_num_remaining_streams[inode] = @ - 1]
         IN IF more_streams_remain(c1.i_num_remaining_streams[inode]) THEN c1
            ELSE [c1 EXCEPT !.done_with_file =
                     Append(@, [path_to_file |-> inode,
                                pending |-> PendingBlobs(c, inode)])]

\* done_with_blob()
done_with_blob(c, blob, may_send) ==
    IF ~c.send_done_with_file THEN c
    ELSE do_done_with_blob(c, blob, may_send)

\* write_chunk(), solid: the blobs the chunk has finished move to
\* blobs_in_solid_resource.
RECURSIVE solid_blobs_done(_)
solid_blobs_done(c) ==
    IF c.blobs_being_compressed # <<>>
       /\ c.cur_write_blob_offset >= Head(c.blobs_being_compressed).size
    THEN LET blob == Head(c.blobs_being_compressed)
             c1 == [c EXCEPT !.cur_write_blob_offset = @ - blob.size,
                             !.blobs_in_solid_resource = Append(@, blob),
                             !.blobs_being_compressed = Tail(@)]
         IN solid_blobs_done(
                done_with_blob(c1, blob.id, c.may_send_done_with_file[blob.id]))
    ELSE c

\* write_chunk(): the chunk goes to the output file at the current offset;
\* the blob it finishes gets its resource header.
write_chunk(c, id, csize, usize, rewritten) ==
    LET blob == Head(c.blobs_being_compressed)
        c0 == IF c.cur_write_blob_offset = 0 /\ ~c.solid
              THEN begin_write_resource(c, blob.size)
              ELSE c
        c1 == [c0 EXCEPT !.written = Append(@, id),
                         !.chunk_index = IF c.compressor THEN @ + 1 ELSE @,
                         !.chunk_csizes =
                             IF c.compressor THEN Append(@, Bytes(csize)) ELSE @,
                         !.out_offset =
                             @ + Bytes(csize) + (IF c.compressor /\ c.pipable
                                                 THEN PwmChunkHdrSize ELSE 0),
                         !.cur_write_blob_offset = @ + usize]
    IN IF c.solid THEN solid_blobs_done(c1)
       ELSE IF c1.cur_write_blob_offset = blob.size
       THEN LET reshdr == [end_write_resource(c1) EXCEPT
                              !.flags = IF c.compressor
                                        THEN {WIM_RESHDR_FLAG_COMPRESSED}
                                        ELSE {},
                              !.blob = blob.id]
                out_reshdr == maybe_rewrite_blob_uncompressed(
                                  c1, blob, reshdr, rewritten)
                c2 == [c1 EXCEPT !.blob_table_list = Append(@, out_reshdr),
                                 !.out_offset = out_reshdr.end_offset,
                                 !.blobs_being_compressed = Tail(@),
                                 !.cur_write_blob_offset = 0]
            IN done_with_blob(c2, blob.id, c.may_send_done_with_file[blob.id])
       ELSE c1

\* finish_pending_blobs(), after finish_remaining_chunks(): the blobs of a
\* solid resource get their resource headers.
\* finish_pending_blobs(), the loop: from offset_in_res = 0, each blob gets
\* blob->out_reshdr.offset_in_wim = offset_in_res; offset_in_res +=
\* blob->size.
RECURSIVE solid_blob_offsets(_, _, _)
solid_blob_offsets(blobs_in_solid_resource, i, offset_in_res) ==
    IF i > Len(blobs_in_solid_resource) THEN <<>>
    ELSE <<offset_in_res>>
         \o solid_blob_offsets(blobs_in_solid_resource, i + 1,
                               offset_in_res
                                 + Bytes(blobs_in_solid_resource[i].size))

finish_pending_blobs(c) ==
    IF c.solid
    THEN LET reshdr == end_write_resource(c)
             offsets == solid_blob_offsets(c.blobs_in_solid_resource, 1, 0)
         IN [c EXCEPT !.blob_table_list =
                @ \o [i \in 1..Len(c.blobs_in_solid_resource) |->
                        [reshdr EXCEPT
                            !.size_in_wim = Bytes(c.blobs_in_solid_resource[i].size),
                            !.flags = {WIM_RESHDR_FLAG_SOLID},
                            !.uncompressed_size = 0,
                            !.offset_in_wim =
                                IF i <= Len(offsets) THEN offsets[i] ELSE 0,
                            !.blob = c.blobs_in_solid_resource[i].id]],
                      !.solid_reshdr = reshdr,
                      !.out_offset = reshdr.end_offset,
                      !.blobs_in_solid_resource = <<>>]
    ELSE c

\* write_blob_process_chunk(): if (!ctx->cur_chunk_buf).
needs_chunk_buffer(cur_chunk_buf) == ~cur_chunk_buf

\* Fault: a duplicate is dropped without touching the size of the
\* resource.
solid_res_size_after_drop_same(c, blob) == c.cur_write_res_size

\* write_blob_begin_read(): if (... & WRITE_RESOURCE_FLAG_SOLID)
\* ctx->cur_write_res_size -= blob->size.
solid_res_size_after_drop(c, blob) ==
    IF c.solid THEN c.cur_write_res_size - blob.size ELSE c.cur_write_res_size

\* Fault: a duplicate that is dropped goes on to be compressed as well.
blobs_after_drop_kept(c, blob) == Append(c.blobs_being_compressed, blob)

\* write_blob_begin_read(): list_del(&blob->write_blobs_list).
blobs_after_drop(c, blob) == c.blobs_being_compressed

\* write_blob_begin_read(), its effect on the context of the chunk loop;
\* found: what hashing an unhashed blob turned up:
\* nothing ("none"), a duplicate that is or need not be in the output
\* ("skip"), or one that takes the place of the blob in the list
\* ("replace"), which has the blob's size.
write_blob_begin_read_ctx(c, blob, found) ==
    LET c0 == [c EXCEPT !.cur_read_blob_offset = 0,
                        !.cur_read_blob_size = blob.size,
                        !.todo = Tail(@)]
    IN IF found = "skip"
       THEN done_with_blob(
                [c0 EXCEPT !.cur_write_res_size = solid_res_size_after_drop(c, blob),
                           !.blobs_being_compressed = blobs_after_drop(c, blob),
                           !.discarded = @ \cup {blob.id},
                           !.status = BEGIN_BLOB_STATUS_SKIP_BLOB],
                blob.id, blob_is_in_file(c.file_inode, blob.id))
       ELSE IF found = "replace"
       THEN [c0 EXCEPT !.blobs_being_compressed = Append(@, blob),
                       !.will_be_in_output_wim = FALSE,
                       !.may_send_done_with_file[blob.id] = FALSE,
                       !.status = "CONTINUE"]
       ELSE [c0 EXCEPT !.blobs_being_compressed = Append(@, blob),
                       !.status = "CONTINUE"]

\* write_blob_end_read() with status 0, its effect on the context of the
\* chunk loop: the descriptor of a duplicate
\* whose data has been read is done with and freed.
write_blob_end_read_ctx(c) ==
    IF ~c.will_be_in_output_wim
    THEN [done_with_blob(c, cur_read_blob(c),
                         blob_is_in_file(c.file_inode, cur_read_blob(c)))
             EXCEPT !.will_be_in_output_wim = TRUE]
    ELSE c

\* read_blob_list(): after the last piece of the blob, end_blob is called.
end_of_blob(c) ==
    IF c.pc = "idle" /\ c.cur_read_blob_offset = c.cur_read_blob_size
    THEN write_blob_end_read_ctx(c)
    ELSE c

\* Fault: every chunk is filled to the chunk size.
needed_chunk_size_full(c) == OutChunkSize

\* write_blob_process_chunk(): needed_chunk_size.
needed_chunk_size(c) ==
    IF c.solid THEN OutChunkSize
    ELSE Min(OutChunkSize,
             c.cur_chunk_buf_filled
               + (c.cur_read_blob_size - c.cur_read_blob_offset))

\* read_blob_list() begins the next blob of the list.  Only a blob that is
\* not in a container can be unhashed.
begin_blob ==
    /\ cc.pc = "idle"
    /\ blob_read_over(cc)
    /\ cc.todo # <<>>
    /\ \E found \in {"none", "skip", "replace"} :
         /\ cc.in_solid_wim => found = "none"
         /\ cc' = write_blob_begin_read_ctx(
                      cc, [id |-> cc.num_blobs - Len(cc.todo) + 1,
                           size |-> Head(cc.todo)], found)
    /\ UNCHANGED <<ovars, blobs, wb, sp, pl, rc, dec>>

\* read_blob_list() calls consume_chunk with the next piece of the blob.
\* Without a compressor the piece is written as it is.
consume_chunk ==
    /\ cc.pc = "idle"
    /\ ~blob_read_over(cc)
    /\ \E size \in 1..Min(MaxPiece, cc.cur_read_blob_size - cc.cur_read_blob_offset),
          ok \in BOOLEAN :
         cc' = IF cc.compressor
               THEN [cc EXCEPT !.pc = "process", !.piece = size]
               ELSE IF ok
               THEN end_of_blob(
                        [write_chunk(cc, cc.submitted + 1, size, size, TRUE)
                            EXCEPT !.submitted = @ + 1,
                                   !.cur_read_blob_offset = @ + size])
               ELSE [cc EXCEPT !.pc = "failed", !.ret = "WRITE"]
    /\ UNCHANGED <<ovars, blobs, wb, sp, pl, rc, dec>>

\* One round of the loop of write_blob_process_chunk(): data of the piece
\* is copied into the chunk buffer, which is submitted when it is full.
write_blob_process_chunk ==
    /\ cc.pc \in {"process", "fill"}
    /\ IF cc.pc = "process" /\ needs_chunk_buffer(cc.cur_chunk_buf)
       THEN cc' = [cc EXCEPT !.pc = "get_buf"]
       ELSE LET bytes_consumed ==
                    Min(cc.piece, needed_chunk_size(cc) - cc.cur_chunk_buf_filled)
                c1 == [cc EXCEPT !.piece = @ - bytes_consumed,
                                 !.cur_read_blob_offset = @ + bytes_consumed,
                                 !.cur_chunk_buf_filled = @ + bytes_consumed,
                                 !.cur_chunk_buf_blobs =
                                     IF bytes_consumed > 0
                                     THEN @ \cup {cur_read_blob(cc)} ELSE @,
                                 !.pc = IF cc.piece = bytes_consumed
                                        THEN "idle" ELSE "process"]
            IN cc' = end_of_blob(
                         IF c1.cur_chunk_buf_filled = needed_chunk_size(cc)
                         THEN signal_chunk_filled(c1) ELSE c1)
    /\ UNCHANGED <<ovars, blobs, wb, sp, pl, rc, dec>>

\* Fault: the loop body entered before the first test.
prepare_chunk_buffer_retrieves_first(buf) == TRUE

\* prepare_chunk_buffer(): while (!(buf = get_chunk_buffer())).
prepare_chunk_buffer_loop(buf) == ~buf

\* prepare_chunk_buffer(): the loop test.
prepare_chunk_buffer ==
    /\ cc.pc = "get_buf"
    /\ cc' = IF prepare_chunk_buffer_loop(get_chunk_buffer(cc))
             THEN [cc EXCEPT !.pc = "get_result"]
             ELSE [cc EXCEPT !.pc = "fill", !.cur_chunk_buf = TRUE]
    /\ UNCHANGED <<ovars, blobs, wb, sp, pl, rc, dec>>

\* prepare_chunk_buffer(): the loop body.  get_compression_result() waits
\* for the chunk it returns; with nothing outstanding it returns false and
\* the assertion fails.
prepare_chunk_buffer_result ==
    /\ cc.pc = "get_result"
    /\ IF cc.outstanding = <<>>
       THEN cc' = [cc EXCEPT !.pc = "assert_failed", !.asked_empty = TRUE]
       ELSE \E i \in get_compression_result(cc.outstanding),
               ok \in BOOLEAN, rewritten \in BOOLEAN :
              cc' = IF ok
                    THEN [write_chunk(cc, cc.outstanding[i].id,
                                      cc.outstanding[i].csize,
                                      cc.outstanding[i].usize, rewritten)
                             EXCEPT !.outstanding = RemoveAt(@, i), !.pc = "get_buf"]
                    ELSE [cc EXCEPT !.outstanding = RemoveAt(@, i),
                                    !.pc = "failed", !.ret = "WRITE"]
    /\ UNCHANGED <<ovars, blobs, wb, sp, pl, rc, dec>>

\* A worker of the compressor finishes one of the submitted chunks.
compressor_worker ==
    /\ \E i \in 1..Len(cc.outstanding), csize \in 1..OutChunkSize :
         /\ ~cc.outstanding[i].done
         /\ csize <= cc.outstanding[i].usize
         /\ cc' = [cc EXCEPT !.outstanding[i].done = TRUE,
                             !.outstanding[i].csize = csize,
                             !.out_of_order =
                                 @ \/ \E j \in 1..(i - 1) : ~cc.outstanding[j].done]
    /\ UNCHANGED <<ovars, blobs, wb, sp, pl, rc, dec>>

\* finish_remaining_chunks(), up to its loop.
finish_remaining_chunks ==
    /\ cc.pc = "idle"
    /\ blob_read_over(cc)
    /\ cc.todo = <<>>
    /\ cc' = IF ~cc.compressor
             THEN [finish_pending_blobs(cc) EXCEPT !.pc = "done", !.ret = "SUCCESS"]
             ELSE IF cc.cur_chunk_buf_filled # 0
             THEN [signal_chunk_filled(cc) EXCEPT !.pc = "drain"]
             ELSE [cc EXCEPT !.pc = "drain"]
    /\ UNCHANGED <<ovars, blobs, wb, sp, pl, rc, dec>>

\* finish_remaining_chunks(): one round of its loop.
finish_remaining_chunks_result ==
    /\ cc.pc = "drain"
    /\ IF cc.outstanding = <<>>
       THEN cc' = [finish_pending_blobs(cc) EXCEPT !.pc = "done", !.ret = "SUCCESS"]
       ELSE \E i \in get_compression_result(cc.outstanding),
               ok \in BOOLEAN, rewritten \in BOOLEAN :
              cc' = IF ok
                    THEN [write_chunk(cc, cc.outstanding[i].id,
                                      cc.outstanding[i].csize,
                                      cc.outstanding[i].usize, rewritten)
                             EXCEPT !.outstanding = RemoveAt(@, i)]
                    ELSE [cc EXCEPT !.outstanding = RemoveAt(@, i),
                                    !.pc = "failed", !.ret = "WRITE"]
    /\ UNCHANGED <<ovars, blobs, wb, sp, pl, rc, dec>>

NextChunks ==
    \/ begin_blob
    \/ consume_chunk
    \/ write_blob_process_chunk
    \/ prepare_chunk_buffer
    \/ prepare_chunk_buffer_result
    \/ compressor_worker
    \/ finish_remaining_chunks
    \/ finish_remaining_chunks_result

SpecChunks == InitChunks /\ [][NextChunks]_vars

\* The workers finish every chunk they were given, and the writing thread
\* keeps running.
SpecChunksFair ==
    /\ InitChunks
    /\ [][NextChunks]_vars
    /\ WF_vars(compressor_worker)
    /\ WF_vars(prepare_chunk_buffer)
    /\ WF_vars(prepare_chunk_buffer_result)

\* C11: the chunks are written in the order in which they were submitted
\* to the compressor, and a write that succeeds has written all of them.
C11_SubmissionOrder ==
    /\ \A i \in 1..Len(cc.written) : cc.written[i] = i
    /\ Len(cc.written) <= cc.submitted
    /\ cc.pc = "done" => Len(cc.written) = cc.submitted

C11_Witness ==
    /\ cc.pc = "done"
    /\ cc.compressor
    /\ cc.out_of_order
    /\ Len(cc.written) >= 3

InPrepareChunkBuffer == cc.pc \in {"get_buf", "get_result"}

SingleUncompressedChunk(r) ==
    r.chunks = 1 /\ r.size_in_wim = r.uncompressed_size

WrittenNotSmaller(r) ==
    /\ cc.compressor /\ ~cc.solid
    /\ r.written_size >= r.uncompressed_size

\* The single chunk of the resource was stored as it is.
SingleChunkStored(r) ==
    r.chunks = 1 /\ r.written_size = r.uncompressed_size

FlagClearedInPlace(r) ==
    /\ WIM_RESHDR_FLAG_COMPRESSED \notin r.flags
    /\ ~r.rewritten
    /\ r.size_in_wim = r.written_size
    /\ r.offset_in_wim = r.written_offset
    /\ r.end_offset = r.written_offset + r.written_size

RewrittenUncompressed(r) ==
    /\ r.rewritten
    /\ WIM_RESHDR_FLAG_COMPRESSED \notin r.flags
    /\ r.size_in_wim = r.uncompressed_size
    /\ r.offset_in_wim = r.written_offset
    /\ r.end_offset = r.written_offset + r.uncompressed_size

CompressedFormKept(r) ==
    /\ WIM_RESHDR_FLAG_COMPRESSED \in r.flags
    /\ ~r.rewritten
    /\ r.size_in_wim = r.written_size
    /\ r.offset_in_wim = r.written_offset
    /\ r.end_offset = r.written_offset + r.written_size

\* The blob would have to be read back from a solid resource of a
\* container, and the resource is not exactly as large as its data.
CostlyToReread(r) ==
    cc.in_solid_wim /\ r.written_size # r.uncompressed_size

\* C24 as stated: a non-solid resource written compressed, not pipable,
\* with a stored size not below its uncompressed size is rewritten
\* uncompressed at the same offset, except that a single chunk stored as it
\* is only has its compressed flag cleared; a pipable resource keeps the
\* compressed form.
C24_Original ==
    \A i \in 1..Len(cc.blob_table_list) :
        LET r == cc.blob_table_list[i]
        IN WrittenNotSmaller(r) =>
               IF cc.pipable THEN CompressedFormKept(r)
               ELSE IF SingleChunkStored(r) THEN FlagClearedInPlace(r)
               ELSE RewrittenUncompressed(r)

\* C24: a non-solid resource written compressed, not pipable, with a
\* stored size not below its uncompressed size is rewritten uncompressed at
\* the same offset, except that a single chunk stored as it is only has its
\* compressed flag cleared with nothing rewritten, and except that the
\* compressed form is kept when the blob would have to be read back from a
\* solid resource of a container and the sizes differ, or when the output
\* could not be positioned or the data not be read back; a pipable resource
\* keeps the compressed form.
C24_UnlessCostlyOrUnreadable ==
    \A i \in 1..Len(cc.blob_table_list) :
        LET r == cc.blob_table_list[i]
        IN WrittenNotSmaller(r) =>
               IF cc.pipable \/ CostlyToReread(r) THEN CompressedFormKept(r)
               ELSE IF SingleChunkStored(r) THEN FlagClearedInPlace(r)
               ELSE IF r.kept THEN CompressedFormKept(r)
               ELSE RewrittenUncompressed(r)

\* A write that rewrote a resource of several chunks and cleared the flag
\* of a single chunk stored as it is.
C24_Witness ==
    /\ cc.pc = "done"
    /\ ~cc.pipable
    /\ \E i, j \in 1..Len(cc.blob_table_list) :
         /\ WrittenNotSmaller(cc.blob_table_list[i])
         /\ cc.blob_table_list[i].chunks > 1
         /\ RewrittenUncompressed(cc.blob_table_list[i])
         /\ WrittenNotSmaller(cc.blob_table_list[j])
         /\ SingleChunkStored(cc.blob_table_list[j])
         /\ FlagClearedInPlace(cc.blob_table_list[j])

(***************************************************************************)
(* The chunk table of a non-solid resource.                                *)
(***************************************************************************)
\* The resource was written as a resource of its own through the
\* compressor and has kept that form.
NonSolidCompressed(r) ==
    /\ cc.compressor /\ ~cc.solid
    /\ WIM_RESHDR_FLAG_COMPRESSED \in r.flags

\* C25: the chunk table of a non-solid compressed resource written as n
\* chunks has n - 1 entries, the entry after chunk i is the sum of the
\* compressed sizes of the chunks up to i, and the entries are 4 bytes wide
\* when the uncompressed size fits in 32 bits (here: SizeBits) and 8 bytes
\* wide otherwise.
C25_ChunkTable ==
    \A k \in 1..Len(cc.blob_table_list) :
        LET r == cc.blob_table_list[k]
        IN NonSolidCompressed(r) =>
               /\ Len(r.chunk_csizes) = r.chunks
               /\ Len(r.chunk_table) = r.chunks - 1
               /\ \A i \in 1..Len(r.chunk_table) :
                      r.chunk_table[i] = SeqSum(SubSeq(r.chunk_csizes, 1, i))
               /\ r.chunk_entry_size =
                      IF r.uncompressed_size < 2^SizeBits THEN 4 ELSE 8
               /\ r.written_size =
                      SeqSum(r.chunk_csizes)
                        + Len(r.chunk_table) * r.chunk_entry_size
                        + (IF cc.pipable THEN r.chunks * PwmChunkHdrSize ELSE 0)

\* A write that left a resource of three chunks with narrow entries and one
\* with wide entries, both smaller than their data.
C25_Witness ==
    /\ cc.pc = "done"
    /\ ~cc.pipable
    /\ \E i, j \in 1..Len(cc.blob_table_list) :
         /\ NonSolidCompressed(cc.blob_table_list[i])
         /\ cc.blob_table_list[i].chunks = 3
         /\ cc.blob_table_list[i].chunk_entry_size = 4
         /\ cc.blob_table_list[i].chunk_table[1] # cc.blob_table_list[i].chunk_table[2]
         /\ NonSolidCompressed(cc.blob_table_list[j])
         /\ cc.blob_table_list[j].chunks = 3
         /\ cc.blob_table_list[j].chunk_entry_size = 8

(***************************************************************************)
(* The blobs of a solid resource.                                          *)
(***************************************************************************)
\* C26: when a solid resource is finished, the first of its blobs, in the
\* order of writing, is at offset 0 of the resource and each following one
\* where the one before it ends, so that the offsets ascend strictly and
\* the blobs do not overlap, and the sizes of the blobs add up to the
\* uncompressed size recorded for the resource, also when duplicates were
\* dropped on the way.
C26_SolidOffsets ==
    cc.solid_reshdr # NoReshdr =>
        LET rs == cc.blob_table_list
        IN /\ \A i \in 1..Len(rs) :
                 /\ rs[i].size_in_wim > 0
                 /\ rs[i].offset_in_wim =
                        SeqSum([j \in 1..(i - 1) |-> rs[j].size_in_wim])
                 /\ \A j \in 1..(i - 1) :
                        /\ rs[j].offset_in_wim < rs[i].offset_in_wim
                        /\ rs[j].offset_in_wim + rs[j].size_in_wim
                               <= rs[i].offset_in_wim
                 /\ rs[i].blob =
                        i + Cardinality({b \in cc.discarded : b < rs[i].blob})
           /\ SeqSum([i \in 1..Len(rs) |-> rs[i].size_in_wim])
                  = cc.solid_reshdr.uncompressed_size

\* A solid resource finished with two blobs in it after a duplicate was
\* dropped.
C26_Witness ==
    /\ cc.pc = "done"
    /\ cc.solid_reshdr # NoReshdr
    /\ cc.discarded # {}
    /\ Len(cc.blob_table_list) >= 2
    /\ cc.blob_table_list[2].offset_in_wim > 0

(***************************************************************************)
(* The end of the writing of the blobs.                                    *)
(***************************************************************************)
\* The places in the list of the output blob table that hold blob b.
TableEntriesOf(b) ==
    {i \in 1..Len(cc.blob_table_list) : cc.blob_table_list[i].blob = b}

\* The resource header has been filled in by end_write_resource() or by
\* finish_pending_blobs().
ReshdrFilledIn(r) ==
    /\ r.size_in_wim > 0
    /\ r.offset_in_wim >= 0
    /\ IF cc.solid
       THEN r.flags = {WIM_RESHDR_FLAG_SOLID} /\ r.uncompressed_size = 0
       ELSE r.uncompressed_size > 0
            /\ r.offset_in_wim + r.size_in_wim = r.end_offset

\* C28: when the writing of the blobs has ended with success, every blob of
\* the list is once in the list for the output blob table, with its
\* resource header filled in, or was dropped as a duplicate and is not in
\* it; the list of blobs being compressed and that of the blobs of the
\* solid resource are empty, and every chunk submitted has been written.
C28_AllBlobsAccounted ==
    cc.pc = "done" =>
        /\ \A b \in 1..cc.num_blobs :
              IF b \in cc.discarded THEN TableEntriesOf(b) = {}
              ELSE /\ Cardinality(TableEntriesOf(b)) = 1
                   /\ \A i \in TableEntriesOf(b) :
                          ReshdrFilledIn(cc.blob_table_list[i])
        /\ Len(cc.blob_table_list) + Cardinality(cc.discarded) = cc.num_blobs
        /\ cc.blobs_being_compressed = <<>>
        /\ cc.blobs_in_solid_resource = <<>>
        /\ cc.outstanding = <<>>
        /\ ~cc.cur_chunk_buf /\ cc.cur_chunk_buf_filled = 0
        /\ Len(cc.written) = cc.submitted

\* A write through the compressor that ended with success after a blob was
\* dropped and another written in several chunks.
C28_Witness ==
    /\ cc.pc = "done"
    /\ cc.compressor
    /\ cc.discarded # {}
    /\ cc.blob_table_list # <<>>
    /\ Len(cc.written) >= 2

(***************************************************************************)
(* Contradictory flags.                                                    *)
(***************************************************************************)
ContradictoryFlags(write_flags) ==
    \/ {CHECK_INTEGRITY, NO_CHECK_INTEGRITY} \subseteq write_flags
    \/ {PIPABLE, NOT_PIPABLE} \subseteq write_flags

\* C15 as stated: an overwrite called with both check-integrity and
\* no-check-integrity, or with both pipable and not-pipable, writes nothing
\* and returns the invalid-parameter error.
C15_Original ==
    \A h \in Handles :
        ContradictoryFlags(wim[h].call_flags) =>
            /\ Orig = orig0
            /\ ~files[TmpOf(h)].exists
            /\ wim[h].pc = "returned" => wim[h].ret = "INVALID_PARAM"

(***************************************************************************)
(* Unsafe compaction and the flags it overrides.                           *)
(***************************************************************************)
AsIfRequested(write_flags) ==
    (write_flags \ {REBUILD}) \cup {SOFT_DELETE, NO_SOLID_SORT}

\* C16: an overwrite called with unsafe-compact and recompress returns the
\* compaction-not-possible error with the file untouched and no strategy
\* tried; called with unsafe-compact alone it goes on with the flags it
\* would have had with soft-delete and no-solid-sort given and rebuild not
\* given: it takes the in-place path exactly when that is possible with
\* those flags, never rebuilds, and never sorts the blobs of a solid
\* resource.
C16_UnsafeCompactFlags ==
    \A h \in Handles :
        (Called(h) /\ UNSAFE_COMPACT \in wim[h].call_flags) =>
            IF RECOMPRESS \in wim[h].call_flags
            THEN /\ wim[h].pc = "returned"
                 /\ wim[h].ret = "COMPACTION_NOT_POSSIBLE"
                 /\ wim[h].tried = <<>>
                 /\ Orig = orig0
            ELSE /\ wim[h].ow_flags = AsIfRequested(wim[h].call_flags)
                 /\ "SOLID_SORT" \notin
                       write_flags_to_resource_flags(wim[h].write_flags \cup {SOLID})
                 /\ \A i \in 1..Len(wim[h].tried) : wim[h].tried[i] # "tmpfile"
                 /\ ~files[TmpOf(h)].exists
                 /\ IF can_overwrite_wim_inplace(
                          wim[h], AsIfRequested(wim[h].call_flags))
                    THEN wim[h].tried = <<"inplace">>
                    ELSE /\ wim[h].tried = <<>>
                         /\ wim[h].ret = "COMPACTION_NOT_POSSIBLE"

C16_Witness ==
    \E h \in Handles :
        /\ {UNSAFE_COMPACT, REBUILD} \subseteq wim[h].call_flags
        /\ SOFT_DELETE \notin wim[h].call_flags
        /\ wim[h].image_deletion_occurred
        /\ wim[h].tried = <<"inplace">>
        /\ wim[h].being_compacted
        /\ wim[h].ip_wrote

(***************************************************************************)
(* The two headers of a pipable container.                                 *)
(***************************************************************************)
WritingPipable(h) ==
    /\ wim[h].caller = "write_wim"
    /\ PIPABLE \in wim[h].write_flags
    /\ files[TmpOf(h)].exists

InitialHeaderWritten(h) ==
    \E i \in 1..Len(wim[h].wlog) : wim[h].wlog[i].k = "initial_hdr"

\* The final header is the last thing written, it lies behind everything
\* else and ends the file, and the blob table, the XML data and, if there is
\* one, the integrity table were written before it.
FinalHeaderAtEnd(h) ==
    LET log == wim[h].wlog
        f == files[TmpOf(h)]
        last == log[Len(log)]
    IN /\ last.k = "hdr"
       /\ last.off + last.size = FileLen(f)
       /\ \A i \in 1..(Len(log) - 1) :
             /\ log[i].k # "hdr"
             /\ log[i].off + log[i].size <= last.off
       /\ ~f.end_hdr.wip
       /\ f.end_hdr.magic = "PWM"
       /\ LoggedAt(log, "bt") = {f.end_hdr.blob_table_reshdr}
       /\ LoggedAt(log, "xml") = {f.end_hdr.xml_data_reshdr}
       /\ LoggedAt(log, "integ") =
             IF wim_has_integrity_table(f.end_hdr)
             THEN {f.end_hdr.integrity_table_reshdr} ELSE {}

\* C17: the header at the beginning of a pipable container is written with
\* the write-in-progress flag clear and is not written again; the
\* finalized header, flag clear, is written at the very end of the
\* output, after the blob table, the XML data and the integrity table.
C17_PipableHeaders ==
    \A h \in Handles :
        WritingPipable(h) =>
            /\ InitialHeaderWritten(h) =>
                  /\ files[TmpOf(h)].hdr.magic = "PWM"
                  /\ ~files[TmpOf(h)].hdr.wip
            /\ wim[h].finalized => InitialHeaderWritten(h) /\ FinalHeaderAtEnd(h)

C17_Witness ==
    \E h \in Handles :
        /\ WritingPipable(h)
        /\ wim[h].finalized
        /\ wim[h].pc = "fw_fsync"
        /\ wim_has_integrity_table(files[TmpOf(h)].end_hdr)

\* C17 as stated: the header at the beginning of a pipable container
\* carries the write-in-progress flag, and the finalized header is written
\* at the very end of the output.
C17_Original ==
    \A h \in Handles :
        WritingPipable(h) =>
            /\ InitialHeaderWritten(h) => files[TmpOf(h)].hdr.wip
            /\ wim[h].finalized => InitialHeaderWritten(h) /\ FinalHeaderAtEnd(h)

(***************************************************************************)
(* The fallback from an append that would overwrite live data.             *)
(***************************************************************************)
\* The calling thread runs on until the call returns.
SpecFair == Init /\ [][Next]_vars /\ WF_vars(Next)

\* The handle has chosen the in-place append and the layout of the
\* container does not allow it.
AppendLayoutUnsafe(h) ==
    /\ wim[h].tried # <<>>
    /\ wim[h].tried[1] = "inplace"
    /\ UNSAFE_COMPACT \notin wim[h].ow_flags
    /\ \/ ~append_layout_ok(wim[h].hdr)
       \/ ~check_resource_offsets(rdescs, append_old_wim_end(wim[h]))

\* C19 as stated: when the layout would make appended data overwrite live
\* data, the in-place attempt is given up before the file is opened for
\* writing, the rebuild through a temporary file is what follows, and the
\* overwrite completes.
C19_Original ==
    /\ [](\A h \in Handles :
            AppendLayoutUnsafe(h) =>
                /\ ~wim[h].ip_wrote
                /\ ~wim[h].locked_for_append
                /\ path = "orig" => Orig = orig0
                /\ wim[h].pc \notin {"inplace", "out"} =>
                      wim[h].tried = <<"inplace", "tmpfile">>)
    /\ \A h \in Handles :
            AppendLayoutUnsafe(h) ~> wim[h].pc = "returned"

(***************************************************************************)
(* The passes of write_wim().                                              *)
(***************************************************************************)
\* C27 as stated: a write to a single output that has finalized its output
\* returns success; it does not open the output again for another pass over
\* the blobs.
C27_Original ==
    [][\A h \in Handles :
          (wim[h].finalized /\ wim[h].pc = "ww_open") =>
              /\ wim'[h].pc # "ww_hdr"
              /\ ~wim'[h].out_fd.open]_vars

(***************************************************************************)
(* Cancellation by the progress function.                                  *)
(***************************************************************************)
\* The steps left to a write that has failed: out_truncate, out_restore_hdr,
\* out_unlock_wim, out_close_wim and out of overwrite_wim_inplace(), the
\* unlinking of the temporary file, the return.
UnwindPcs == {"out_truncate", "out_restore_hdr", "out_unlock_wim",
              "out_close_wim", "out", "tmp_ret", "returned"}

\* C13 as stated: once the progress function has returned a non-zero value
\* during a write, the write only unwinds (no blob data is read or written
\* any more), the header is not finalized, no other write strategy is
\* tried, and the operation returns that same value.
C13_Original ==
    [][\A h \in Handles :
        wim'[h].cancelled # "NONE" =>
            /\ wim'[h].pc \in UnwindPcs
            /\ ~wim'[h].finalized
            /\ wim[h].cancelled # "NONE" => wim'[h].tried = wim[h].tried
            /\ wim'[h].pc = "returned" => wim'[h].ret = wim'[h].cancelled]_vars

(***************************************************************************)
(* wimlib_split(): write_wim() with a part size.  Each round of its loop   *)
(* writes one part file: the progress message, the file opened, the        *)
(* header, the blobs that fit, finish_write() with the final header, the   *)
(* progress message, the part number counted up.  parts records the final  *)
(* header of each part file written.  Blobs are one unit each.             *)
(***************************************************************************)
MaxParts == 3
MaxPartSize == 2
MaxSplitBlobs == 3

Guids == {"guid1", "guid2"}

InitSplit ==
    /\ \E part_size \in 0..MaxPartSize, n \in 0..MaxSplitBlobs, guid \in Guids,
          flags \in SUBSET {CHECK_INTEGRITY, NO_CHECK_INTEGRITY} :
         sp = [pc |-> "ready", part_size |-> part_size, write_flags |-> flags,
               hdr_guid |-> guid, blob_list |-> n,
               out_hdr |-> [guid |-> "none", spanned |-> FALSE,
                            part_number |-> 0, total_parts |-> 0],
               cur_part_number |-> 0, open |-> FALSE, parts |-> <<>>,
               ret |-> "NONE"]
    /\ files = InitFiles(NoFile)
    /\ path = "orig"
    /\ flock_owner = NoOwner
    /\ wim = [h \in Handles |-> Closed]
    /\ rdescs = {}
    /\ orig0 = NoFile
    /\ blobs = NoBlobs
    /\ wb = NoWriteBlobs
    /\ cc = NoChunks
    /\ pl = NoPlan
    /\ rc = NoRawCopy
    /\ dec = NoDecoder

\* write_wim(): the header fields of a split set up before the loop, on an
\* out_hdr filled with zeros.
split_out_hdr(write_flags, hdr_guid) ==
    [guid |-> IF RETAIN_GUID \in write_flags THEN hdr_guid ELSE "generated",
     spanned |-> TRUE,
     part_number |-> 0,
     total_parts |-> 0]

\* wimlib_split() and write_wim() up to its loop.
wimlib_split ==
    /\ sp.pc = "ready"
    /\ LET write_flags == sp.write_flags \cup {RETAIN_GUID}
       IN sp' = IF sp.part_size = 0
                THEN [sp EXCEPT !.pc = "returned", !.ret = "INVALID_PARAM"]
                ELSE IF ~write_wim_flags_valid(write_flags)
                THEN [sp EXCEPT !.pc = "returned", !.ret = "INVALID_PARAM"]
                ELSE [sp EXCEPT !.pc = "begin_part",
                                !.write_flags = write_flags,
                                !.out_hdr = split_out_hdr(write_flags, sp.hdr_guid),
                                !.cur_part_number = 1]
    /\ UNCHANGED <<ovars, blobs, wb, cc, pl, rc, dec>>

\* The head of the loop: WIMLIB_PROGRESS_MSG_SPLIT_BEGIN_PART, the part
\* number into the header, the part file opened.
split_begin_part ==
    /\ sp.pc = "begin_part"
    /\ sp.cur_part_number <= MaxParts
    /\ \E status \in ProgressValues, opened \in BOOLEAN :
         sp' = IF call_progress(status) # "SUCCESS"
               THEN [sp EXCEPT !.pc = "out_cleanup", !.ret = call_progress(status)]
               ELSE IF ~opened
               THEN [sp EXCEPT !.pc = "out_cleanup", !.ret = "OPEN",
                               !.out_hdr.part_number = sp.cur_part_number]
               ELSE [sp EXCEPT !.pc = "write_part", !.open = TRUE,
                               !.out_hdr.part_number = sp.cur_part_number]
    /\ UNCHANGED <<ovars, blobs, wb, cc, pl, rc, dec>>

\* The body of the loop: the initial header, write_file_data_blobs() with
\* the part size, finish_write(), which writes the final header and closes
\* the file.
split_write_part ==
    /\ sp.pc = "write_part"
    /\ \E ret \in {"SUCCESS", "WRITE"}, status \in ProgressValues :
         sp' = IF ret # "SUCCESS"
               THEN [sp EXCEPT !.pc = "out_cleanup", !.ret = ret]
               ELSE IF call_progress(status) # "SUCCESS"
               THEN [sp EXCEPT !.pc = "out_cleanup", !.ret = call_progress(status)]
               ELSE [sp EXCEPT !.pc = "end_part", !.open = FALSE,
                               !.blob_list = @ - Min(@, sp.part_size),
                               !.parts = Append(@, sp.out_hdr)]
    /\ UNCHANGED <<ovars, blobs, wb, cc, pl, rc, dec>>

\* The foot of the loop: WIMLIB_PROGRESS_MSG_SPLIT_END_PART, the part
\* number counted up.
split_end_part ==
    /\ sp.pc = "end_part"
    /\ \E status \in ProgressValues :
         sp' = IF call_progress(status) # "SUCCESS"
               THEN [sp EXCEPT !.pc = "returned", !.ret = call_progress(status)]
               ELSE [sp EXCEPT !.pc = "begin_part", !.cur_part_number = @ + 1]
    /\ UNCHANGED <<ovars, blobs, wb, cc, pl, rc, dec>>

\* out_cleanup: close_wim_writable() and the return.
split_out_cleanup ==
    /\ sp.pc = "out_cleanup"
    /\ sp' = [sp EXCEPT !.pc = "returned", !.open = FALSE]
    /\ UNCHANGED <<ovars, blobs, wb, cc, pl, rc, dec>>

NextSplit ==
    \/ wimlib_split
    \/ split_begin_part
    \/ split_write_part
    \/ split_end_part
    \/ split_out_cleanup

SpecSplit == InitSplit /\ [][NextSplit]_vars

\* C18 as stated: every part file written by a split has the GUID of the
\* source container, the spanned flag, its 1-based position as part_number
\* and, once the split has returned, the number of part files written as
\* total_parts.
C18_Original ==
    \A i \in 1..Len(sp.parts) :
        /\ sp.parts[i].guid = sp.hdr_guid
        /\ sp.parts[i].spanned
        /\ sp.parts[i].part_number = i
        /\ sp.pc = "returned" => sp.parts[i].total_parts = Len(sp.parts)

(***************************************************************************)
(* The images of a WIMStruct and the planning of one write.  image_metadata *)
(* is the array of the WIMStruct: its first image_count slots hold the     *)
(* images, in order; the slots behind them, up to the size the array was   *)
(* allocated with, keep what wimlib_delete_image() left there.  Image       *)
(* metadata are numbered (ImdIds); the metadata blob of metadata k is blob *)
(* MetaBlob(k), the blobs of file data are FileBlobs.  A stream names the   *)
(* blob with its hash, NoBlob for the zero hash, or MissingBlob for a hash  *)
(* that is in no table.                                                     *)
(***************************************************************************)
MaxImages == 3
MaxNlink == 2
MaxDeleteCalls == 1

ImdIds == 1..MaxImages
FileBlobs == {1, 2, 3}
MissingBlob == 9
MetaBlob(k) == 10 + k
MetaBlobs == {MetaBlob(k) : k \in ImdIds}
PlanBlobs == FileBlobs \cup MetaBlobs
WIMLIB_ALL_IMAGES == -1
BadPointer == 0

Inode(nlink, streams) == [i_nlink |-> nlink, i_streams |-> streams]

\* The inodes of an image that refers to blobs of the blob table only.
InodeLists ==
    {<<Inode(1, <<1>>)>>,
     <<Inode(MaxNlink, <<1, 2>>)>>,
     <<Inode(1, <<2, 2>>)>>,
     <<Inode(MaxNlink, <<2>>), Inode(1, <<1, NoBlob>>)>>,
     <<Inode(1, <<MissingBlob>>)>>}

\* The inodes of an image with a file added to it since it was read: blob 3
\* is the unhashed blob of the one stream that holds the new data.
InodeListsUnhashed ==
    {<<Inode(MaxNlink, <<3, 1>>)>>}

\* blob->refcnt as the library keeps it: the references of all images.
RECURSIVE StreamRefs(_, _)
StreamRefs(streams, b) ==
    IF streams = <<>> THEN 0
    ELSE (IF Head(streams) = b THEN 1 ELSE 0) + StreamRefs(Tail(streams), b)

RECURSIVE InodeRefs(_, _)
InodeRefs(inodes, b) ==
    IF inodes = <<>> THEN 0
    ELSE Head(inodes).i_nlink * StreamRefs(Head(inodes).i_streams, b)
         + InodeRefs(Tail(inodes), b)

RECURSIVE ImageRefs(_, _, _)
ImageRefs(imds, ks, b) ==
    IF ks = <<>> THEN 0
    ELSE InodeRefs(imds[Head(ks)].inode_list, b) + ImageRefs(imds, Tail(ks), b)

PlanBlob(is_metadata, in_table, in_wim, refcnt, stale) ==
    [is_metadata |-> is_metadata, in_table |-> in_table, in_wim |-> in_wim,
     refcnt |-> refcnt,
     will_be_in_output_wim |-> stale, out_refcnt |-> IF stale THEN 7 ELSE 0]

Iota(n) == [i \in 1..n |-> i]

InitPlan ==
    /\ \E n \in 0..MaxImages, lists \in [ImdIds -> InodeLists \cup InodeListsUnhashed],
          modified \in {{}, {1}, {2}}, stale \in BOOLEAN :
         /\ \A k \in ImdIds :
              /\ k > n => lists[k] = <<Inode(1, <<1>>)>> /\ k \notin modified
              /\ k = MaxImages => lists[k] = <<Inode(1, <<1>>)>>
              /\ lists[k] \in InodeListsUnhashed => k = 1 /\ k \in modified
         /\ \E boot \in 0..n :
              LET imds == [k \in ImdIds |->
                             [metadata_blob |-> MetaBlob(k), inode_list |-> lists[k],
                              unhashed_blobs |->
                                  IF lists[k] \in InodeListsUnhashed THEN {3} ELSE {},
                              put |-> FALSE]]
              IN pl = [pc |-> "ready",
                       image_count |-> n, boot_idx |-> boot, allocated |-> n,
                       image_metadata |-> Iota(n),
                       image_deletion_occurred |-> FALSE, delete_calls |-> 0,
                       imds |-> imds,
                       blobs |-> [b \in PlanBlobs |->
                                    IF b \in MetaBlobs
                                    THEN PlanBlob(TRUE, FALSE, (b - 10) \notin modified, 1, stale)
                                    ELSE IF b = 3
                                    THEN PlanBlob(FALSE, FALSE, FALSE,
                                                  ImageRefs(imds, Iota(n), b), stale)
                                    ELSE PlanBlob(FALSE, TRUE, b = 1,
                                                  ImageRefs(imds, Iota(n), b), stale)],
                       image |-> 0, write_flags |-> {}, read |-> <<>>,
                       blob_list |-> <<>>, blob_table_list |-> <<>>,
                       ret |-> "NONE"]
    /\ files = InitFiles(NoFile)
    /\ path = "orig"
    /\ flock_owner = NoOwner
    /\ wim = [h \in Handles |-> Closed]
    /\ rdescs = {}
    /\ orig0 = NoFile
    /\ blobs = NoBlobs
    /\ wb = NoWriteBlobs
    /\ cc = NoChunks
    /\ sp = NoSplit
    /\ rc = NoRawCopy
    /\ dec = NoDecoder

\* select_wim_image(): the image has to exist, and its metadata has to be
\* readable (unreadable stands for the image whose metadata cannot be read,
\* 0 for none).
select_wim_image(p, image, unreadable) ==
    IF image < 1 \/ image > p.image_count THEN "INVALID_IMAGE"
    ELSE IF image = unreadable THEN "READ"
    ELSE "SUCCESS"

\* put_image_metadata(): the dentry tree is freed and the reference counts
\* of the blobs of the image are decremented.
put_image_metadata(p, k) ==
    [p EXCEPT !.imds[k].put = TRUE,
              !.blobs = [b \in PlanBlobs |->
                           IF b \in FileBlobs
                           THEN [p.blobs[b] EXCEPT
                                    !.refcnt = @ - InodeRefs(p.imds[k].inode_list, b)]
                           ELSE p.blobs[b]]]

\* Fault: the boot index is left alone when an image before it goes.
fix_boot_idx_only_reset(boot_idx, image) ==
    IF boot_idx = image THEN 0 ELSE boot_idx

\* wimlib_delete_image(), "Fix the boot index".
fix_boot_idx(boot_idx, image) ==
    IF boot_idx = image THEN 0
    ELSE IF boot_idx > image THEN boot_idx - 1
    ELSE boot_idx

\* One round of the loop of wimlib_delete_image() after the image has been
\* selected: the slots behind the image move down by one (the slot of the
\* last image keeps its pointer), the count and the boot index follow.
delete_one_image(p, image) ==
    LET q == put_image_metadata(p, p.image_metadata[image])
    IN [q EXCEPT !.image_metadata =
                     [j \in 1..Len(p.image_metadata) |->
                        IF j >= image /\ j <= p.image_count - 1
                        THEN p.image_metadata[j + 1] ELSE p.image_metadata[j]],
                 !.image_count = @ - 1,
                 !.boot_idx = fix_boot_idx(@, image),
                 !.image_deletion_occurred = TRUE]

RECURSIVE delete_image_loop(_, _, _, _)
delete_image_loop(p, image, first, unreadable) ==
    IF image < first THEN [p EXCEPT !.ret = "SUCCESS"]
    ELSE IF select_wim_image(p, image, unreadable) # "SUCCESS"
    THEN [p EXCEPT !.ret = select_wim_image(p, image, unreadable)]
    ELSE delete_image_loop(delete_one_image(p, image), image - 1, first, unreadable)

\* wimlib_delete_image() of the image, or of all images.
delete_image(image, unreadable) ==
    /\ pl.pc = "ready"
    /\ pl.delete_calls < MaxDeleteCalls
    /\ LET last == IF image = WIMLIB_ALL_IMAGES THEN pl.image_count ELSE image
           first == IF image = WIMLIB_ALL_IMAGES THEN 1 ELSE image
       IN pl' = [delete_image_loop(pl, last, first, unreadable) EXCEPT
                    !.image = image, !.delete_calls = @ + 1]
    /\ UNCHANGED <<ovars, blobs, wb, cc, sp, rc, dec>>

\* Fault: the number of hard links of the file is not counted.
reference_blob_for_write_once(p, b, nref) ==
    IF ~p.blobs[b].will_be_in_output_wim
    THEN [p EXCEPT !.blobs[b].out_refcnt = 1,
                   !.blobs[b].will_be_in_output_wim = TRUE,
                   !.blob_list = Append(@, b)]
    ELSE [p EXCEPT !.blobs[b].out_refcnt = @ + 1]

\* reference_blob_for_write(): list_add_tail() puts the blob at the end of
\* the list whether or not it is on it.
reference_blob_for_write(p, b, nref) ==
    IF ~p.blobs[b].will_be_in_output_wim
    THEN [p EXCEPT !.blobs[b].out_refcnt = nref,
                   !.blobs[b].will_be_in_output_wim = TRUE,
                   !.blob_list = Append(@, b)]
    ELSE [p EXCEPT !.blobs[b].out_refcnt = @ + nref]

fully_reference_blob_for_write(p, b) ==
    reference_blob_for_write([p EXCEPT !.blobs[b].will_be_in_output_wim = FALSE],
                             b, p.blobs[b].refcnt)

\* stream_blob(): the blob of the stream, or NoBlob when the stream has the
\* zero hash or its hash is in no table.
stream_blob(stream) == IF stream \in FileBlobs THEN stream ELSE NoBlob

RECURSIVE inode_find_blobs_to_reference(_, _, _)
inode_find_blobs_to_reference(p, inode, i) ==
    IF i > Len(inode.i_streams) THEN p
    ELSE LET blob == stream_blob(inode.i_streams[i])
         IN IF blob # NoBlob
            THEN inode_find_blobs_to_reference(
                     reference_blob_for_write(p, blob, inode.i_nlink), inode, i + 1)
            ELSE IF inode.i_streams[i] # NoBlob
            THEN [p EXCEPT !.ret = "RESOURCE_NOT_FOUND"]
            ELSE inode_find_blobs_to_reference(p, inode, i + 1)

RECURSIVE image_for_each_inode(_, _)
image_for_each_inode(p, inodes) ==
    IF inodes = <<>> THEN p
    ELSE LET q == inode_find_blobs_to_reference(p, Head(inodes), 1)
         IN IF q.ret # "SUCCESS" THEN q ELSE image_for_each_inode(q, Tail(inodes))

\* image_find_blobs_to_reference() on the image that is selected.
image_find_blobs_to_reference(p, image) ==
    LET imd == p.imds[p.image_metadata[image]]
        q == [p EXCEPT !.blobs = [b \in PlanBlobs |->
                                    IF b \in imd.unhashed_blobs
                                    THEN [p.blobs[b] EXCEPT !.will_be_in_output_wim = FALSE]
                                    ELSE p.blobs[b]]]
    IN image_for_each_inode(q, imd.inode_list)

\* for_image(): the visitor on the image, or on every image in turn.
RECURSIVE for_image(_, _, _)
for_image(p, image, last) ==
    IF image > last THEN p
    ELSE LET q == image_find_blobs_to_reference(p, image)
         IN IF q.ret # "SUCCESS" THEN q ELSE for_image(q, image + 1, last)

RECURSIVE for_blobs(_, _, _)
for_blobs(p, todo, fully) ==
    IF todo = {} THEN p
    ELSE LET b == CHOOSE x \in todo : \A y \in todo : x <= y
         IN for_blobs(IF fully THEN fully_reference_blob_for_write(p, b)
                      ELSE [p EXCEPT !.blobs[b].will_be_in_output_wim = FALSE],
                      todo \ {b}, fully)

\* The blobs of the blob table, and the unhashed blobs of the images.
BlobsInTable(p) == {b \in FileBlobs : p.blobs[b].in_table}
UnhashedBlobs(p) ==
    UNION {p.imds[p.image_metadata[i]].unhashed_blobs : i \in 1..p.image_count}

\* wim->image_metadata[i] for the 0-based i: an image, or what an image
\* deleted earlier left in the slot while the metadata it points to is
\* alive, or else garbage: a pointer that cannot be dereferenced, or one
\* that happens to point to image metadata.
image_metadata_at(p, i, garbage) ==
    IF i + 1 <= p.allocated /\
       (i + 1 <= p.image_count \/ ~p.imds[p.image_metadata[i + 1]].put)
    THEN p.image_metadata[i + 1]
    ELSE garbage

\* The slot read for image i, "Reference metadata resources".
metadata_slot(i) == i

RECURSIVE reference_metadata_resources(_, _, _, _)
reference_metadata_resources(p, i, last, garbage) ==
    IF i > last THEN p
    ELSE LET k == image_metadata_at(p, metadata_slot(i), garbage)
             q == [p EXCEPT !.read = Append(@, metadata_slot(i))]
         IN IF k = BadPointer THEN [q EXCEPT !.pc = "crashed"]
            ELSE reference_metadata_resources(
                     reference_blob_for_write(
                         [q EXCEPT !.blobs[MetaBlob(k)].will_be_in_output_wim = FALSE],
                         MetaBlob(k), 1),
                     i + 1, last, garbage)

\* prepare_unfiltered_list_of_blobs_in_output_wim().
unfiltered_list_of_blobs(p, image, blobs_ok, garbage) ==
    LET first == IF image = WIMLIB_ALL_IMAGES THEN 1 ELSE image
        last == IF image = WIMLIB_ALL_IMAGES THEN p.image_count ELSE image
        p0 == [p EXCEPT !.blob_list = <<>>, !.ret = "SUCCESS"]
        p1 == IF blobs_ok /\ (image = WIMLIB_ALL_IMAGES \/
                              (image = 1 /\ p.image_count = 1))
              THEN for_blobs(for_blobs(p0, BlobsInTable(p0), TRUE),
                             UnhashedBlobs(p0), TRUE)
              ELSE for_image(for_blobs(p0, BlobsInTable(p0), FALSE), first, last)
    IN IF p1.ret # "SUCCESS" THEN p1
       ELSE reference_metadata_resources(p1, first, last, garbage)

\* prepare_blob_list_for_write() as write_wim() and overwrite_wim_inplace()
\* call it, up to the unfiltered list.
prepare_unfiltered_list_of_blobs_in_output_wim(image, flags, garbage) ==
    /\ pl.pc = "ready"
    /\ image = WIMLIB_ALL_IMAGES \/ (image >= 1 /\ image <= pl.image_count)
    /\ (APPEND \in flags \/ UNSAFE_COMPACT \in flags) => image = WIMLIB_ALL_IMAGES
    /\ APPEND \in flags => STREAMS_OK \in flags
    /\ LET q == unfiltered_list_of_blobs(
                    [pl EXCEPT !.image = image, !.write_flags = flags, !.read = <<>>],
                    image, STREAMS_OK \in flags, garbage)
       IN pl' = IF q.pc = "crashed" THEN q
                ELSE IF q.ret # "SUCCESS" THEN [q EXCEPT !.pc = "returned"]
                ELSE [q EXCEPT !.pc = "unfiltered"]
    /\ UNCHANGED <<ovars, blobs, wb, cc, sp, rc, dec>>

RECURSIVE FilterSeq(_, _, _)
FilterSeq(s, p, append) ==
    IF s = <<>> THEN <<>>
    ELSE (IF blob_filtered(p.blobs[Head(s)], append) THEN <<>> ELSE <<Head(s)>>)
         \o FilterSeq(Tail(s), p, append)

\* filter_blob_list_for_write() when only the soft filter of an append is
\* in force, and then, in a compaction, "Add existing metadata resources".
filter_blob_list_for_write ==
    /\ pl.pc = "unfiltered"
    /\ LET q == [pl EXCEPT !.blob_list = FilterSeq(@, pl, APPEND \in pl.write_flags)]
           existing == {MetaBlob(pl.image_metadata[i]) : i \in 1..pl.image_count}
       IN pl' = [(IF UNSAFE_COMPACT \in pl.write_flags
                  THEN for_blobs(q, {m \in existing : pl.blobs[m].in_wim}, TRUE)
                  ELSE q) EXCEPT !.pc = "planned"]
    /\ UNCHANGED <<ovars, blobs, wb, cc, sp, rc, dec>>

NextPlan ==
    \/ \E image \in {WIMLIB_ALL_IMAGES} \cup 0..MaxImages, unreadable \in 0..MaxImages :
         delete_image(image, unreadable)
    \/ \E image \in {WIMLIB_ALL_IMAGES} \cup 1..MaxImages,
          flags \in {{}, {STREAMS_OK}, {APPEND, STREAMS_OK}, {UNSAFE_COMPACT}},
          garbage \in {BadPointer} \cup ImdIds :
         prepare_unfiltered_list_of_blobs_in_output_wim(image, flags, garbage)
    \/ filter_blob_list_for_write

SpecPlan == InitPlan /\ [][NextPlan]_vars

(***************************************************************************)
(* The write set the planner builds.                                       *)
(***************************************************************************)
RECURSIVE Occurrences(_, _)
Occurrences(s, b) ==
    IF s = <<>> THEN 0
    ELSE (IF Head(s) = b THEN 1 ELSE 0) + Occurrences(Tail(s), b)

\* The image metadata of the images being written.
WrittenImages ==
    IF pl.image = WIMLIB_ALL_IMAGES THEN SubSeq(pl.image_metadata, 1, pl.image_count)
    ELSE <<pl.image_metadata[pl.image]>>

\* The planner has walked the images and has its unfiltered list.
WalkedImages ==
    /\ pl.pc = "unfiltered"
    /\ ~(STREAMS_OK \in pl.write_flags /\
         (pl.image = WIMLIB_ALL_IMAGES \/ (pl.image = 1 /\ pl.image_count = 1)))

\* C21: when the planner has walked the images, every blob that a stream
\* of a written image refers to is on the list of blobs exactly once, is
\* marked as part of the output, and has as out_refcnt the number of
\* references from the written images, a stream counting once for each hard
\* link of its inode.
C21_WalkReferences ==
    WalkedImages =>
        \A b \in FileBlobs :
            ImageRefs(pl.imds, WrittenImages, b) > 0 =>
                /\ Occurrences(pl.blob_list, b) = 1
                /\ pl.blobs[b].will_be_in_output_wim
                /\ pl.blobs[b].out_refcnt = ImageRefs(pl.imds, WrittenImages, b)

\* A walk of two images that reached one blob through an inode with two
\* hard links and through two streams, on descriptors that carried the
\* marks of an earlier write.
C21_Witness ==
    /\ WalkedImages
    /\ pl.image = WIMLIB_ALL_IMAGES
    /\ pl.image_count = 2
    /\ \E b \in FileBlobs :
         /\ pl.blobs[b].out_refcnt = 4
         /\ ImageRefs(pl.imds, WrittenImages, b) = 4
    /\ \E b \in FileBlobs : pl.blobs[b].out_refcnt = 7

(***************************************************************************)
(* The metadata resources in the write set.                                *)
(***************************************************************************)
\* The numbers of the images being written.
ImagesToWrite ==
    IF pl.image = WIMLIB_ALL_IMAGES THEN 1..pl.image_count ELSE {pl.image}

\* "Reference metadata resources" has run, and nothing has been filtered
\* from the list since, or the list is that of a compaction.
MetadataReferenced ==
    \/ pl.pc \in {"unfiltered", "crashed"}
    \/ pl.pc = "planned" /\ UNSAFE_COMPACT \in pl.write_flags

\* C29 as stated: for every image k being written, the metadata blob of
\* image k, held in slot k - 1, and no other metadata blob, is added to the
\* write set, once and with out_refcnt 1, and no slot outside
\* 0..image_count - 1 is read.
C29_Original ==
    MetadataReferenced =>
        /\ pl.pc # "crashed"
        /\ \A i \in 1..Len(pl.read) : pl.read[i] \in 0..(pl.image_count - 1)
        /\ {pl.read[i] : i \in 1..Len(pl.read)} = {k - 1 : k \in ImagesToWrite}
        /\ \A k \in ImagesToWrite :
              LET m == MetaBlob(pl.image_metadata[k])
              IN /\ Occurrences(pl.blob_list, m) = 1
                 /\ pl.blobs[m].will_be_in_output_wim
                 /\ pl.blobs[m].out_refcnt = 1
        /\ \A m \in MetaBlobs :
              Occurrences(pl.blob_list, m) > 0 =>
                  \E k \in ImagesToWrite : m = MetaBlob(pl.image_metadata[k])

(***************************************************************************)
(* Deleting images.                                                        *)
(***************************************************************************)
\* A call of wimlib_delete_image() that returns success.
DeleteImageStep ==
    /\ pl.pc = "ready"
    /\ pl'.pc = "ready"
    /\ pl'.delete_calls = pl.delete_calls + 1
    /\ pl'.ret = "SUCCESS"

\* C30: deleting image i of n leaves n - 1 images, those before i where
\* they were and those after i one number lower, in their order; the boot
\* index becomes 0 if it was i and one less if it was above i, and stays
\* otherwise; deleting all images leaves no image and boot index 0.
C30_DeleteImage ==
    [][DeleteImageStep =>
          LET i == pl'.image
              n == pl.image_count
          IN IF i = WIMLIB_ALL_IMAGES
             THEN pl'.image_count = 0 /\ pl'.boot_idx = 0
             ELSE /\ pl'.image_count = n - 1
                  /\ \A j \in 1..(n - 1) :
                        pl'.image_metadata[j] =
                            IF j < i THEN pl.image_metadata[j]
                            ELSE pl.image_metadata[j + 1]
                  /\ pl'.boot_idx =
                        IF pl.boot_idx = i THEN 0
                        ELSE IF pl.boot_idx > i THEN pl.boot_idx - 1
                        ELSE pl.boot_idx]_vars

\* The second of three images has been deleted: the third is now the
\* second, and is the boot image as it was before.
C30_Witness ==
    /\ pl.pc = "ready"
    /\ pl.delete_calls = 1
    /\ pl.ret = "SUCCESS"
    /\ pl.image = 2
    /\ pl.image_count = 2
    /\ pl.image_metadata[1] = 1
    /\ pl.image_metadata[2] = 3
    /\ pl.boot_idx = 2
    /\ pl.image_deletion_occurred

(***************************************************************************)
(* Raw copies: find_raw_copy_blobs() over the blobs of one resource of an   *)
(* input container, and write_raw_copy_resources().  res_blobs are the     *)
(* blobs the resource descriptor lists; each is in the write set or not,    *)
(* and those on the write list are to be written by this pass.  The        *)
(* resource may hold more data than its listed blobs account for.          *)
(***************************************************************************)
MaxUnlisted == 1

WIMLIB_COMPRESSION_TYPE_NONE == "NONE"
CompressionTypes == {"LZX", "XPRESS"}

ResBlob(size, in_set, on_list) ==
    [size |-> size, will_be_in_output_wim |-> in_set, on_list |-> on_list,
     raw_copy |-> FALSE, in_blob_table_list |-> FALSE]

ResBlobSizes == {<<1>>, <<1, 1>>, <<2, 1>>, <<1, 1, 1>>, <<1, 2, 3>>}


InitRawCopy ==
    /\ \E sizes \in ResBlobSizes, extra \in 0..MaxUnlisted,
          rflags \in {{}, {WIM_RESHDR_FLAG_COMPRESSED}, {WIM_RESHDR_FLAG_SOLID}},
          is_pipable \in BOOLEAN, ctype \in CompressionTypes,
          chunk_size \in {1, OutChunkSize}, being_compacted \in BOOLEAN,
          raw_copy_ok \in BOOLEAN,
          wflags \in SUBSET {RECOMPRESS, PIPABLE, SOLID},
          out_ctype \in {WIMLIB_COMPRESSION_TYPE_NONE, "LZX"} :
         /\ WIM_RESHDR_FLAG_SOLID \notin rflags => Len(sizes) = 1 /\ extra = 0
         /\ \E in_set \in SUBSET (1..Len(sizes)) :
            \E on_list \in (SUBSET in_set) \ {{}} :
              rc = [pc |-> "find",
                    rdesc |-> [flags |-> rflags, is_pipable |-> is_pipable,
                               compression_type |-> ctype, chunk_size |-> chunk_size,
                               uncompressed_size |-> SeqSum(sizes) + extra,
                               being_compacted |-> being_compacted,
                               raw_copy_ok |-> raw_copy_ok],
                    res_blobs |-> [i \in 1..Len(sizes) |->
                                     ResBlob(sizes[i], i \in in_set, i \in on_list)],
                    write_resource_flags |-> wflags,
                    out_ctype |-> out_ctype, out_chunk_size |-> OutChunkSize,
                    num_nonraw_bytes |-> 0, copies |-> 0]
    /\ files = InitFiles(NoFile)
    /\ path = "orig"
    /\ flock_owner = NoOwner
    /\ wim = [h \in Handles |-> Closed]
    /\ rdescs = {}
    /\ orig0 = NoFile
    /\ blobs = NoBlobs
    /\ wb = NoWriteBlobs
    /\ cc = NoChunks
    /\ sp = NoSplit
    /\ pl = NoPlan
    /\ dec = NoDecoder

\* can_raw_copy(): the size of the blobs of the resource that are in the
\* write set.
RECURSIVE write_size(_)
write_size(res_blobs) ==
    IF res_blobs = <<>> THEN 0
    ELSE (IF Head(res_blobs).will_be_in_output_wim THEN Head(res_blobs).size ELSE 0)
         + write_size(Tail(res_blobs))

\* Fault: a third of the resource is enough.
solid_resource_worth_reusing_third(rdesc, res_blobs) ==
    write_size(res_blobs) > rdesc.uncompressed_size \div 3

\* can_raw_copy(): the heuristic for a solid resource.
solid_resource_worth_reusing(rdesc, res_blobs) ==
    write_size(res_blobs) > (rdesc.uncompressed_size * 2) \div 3

\* can_raw_copy() for a blob that is located in a WIM resource.
can_raw_copy(rdesc, res_blobs, write_resource_flags, out_ctype, out_chunk_size) ==
    IF RECOMPRESS \in write_resource_flags THEN FALSE
    ELSE IF rdesc.being_compacted THEN TRUE
    ELSE IF out_ctype = WIMLIB_COMPRESSION_TYPE_NONE \/
            rdesc.flags \cap {WIM_RESHDR_FLAG_COMPRESSED, WIM_RESHDR_FLAG_SOLID} = {}
    THEN FALSE
    ELSE IF rdesc.is_pipable # (PIPABLE \in write_resource_flags) THEN FALSE
    ELSE IF (WIM_RESHDR_FLAG_SOLID \in rdesc.flags) # (SOLID \in write_resource_flags)
    THEN FALSE
    ELSE IF WIM_RESHDR_FLAG_COMPRESSED \in rdesc.flags
    THEN rdesc.compression_type = out_ctype /\ rdesc.chunk_size = out_chunk_size
    ELSE rdesc.raw_copy_ok \/ solid_resource_worth_reusing(rdesc, res_blobs)

\* The loop of find_raw_copy_blobs() from blob i of the write list on.
RECURSIVE find_raw_copy_loop(_, _)
find_raw_copy_loop(r, i) ==
    IF i > Len(r.res_blobs) THEN r
    ELSE IF ~r.res_blobs[i].on_list THEN find_raw_copy_loop(r, i + 1)
    ELSE IF can_raw_copy(r.rdesc, r.res_blobs, r.write_resource_flags,
                         r.out_ctype, r.out_chunk_size)
    THEN find_raw_copy_loop([r EXCEPT !.rdesc.raw_copy_ok = TRUE,
                                      !.res_blobs[i].raw_copy = TRUE,
                                      !.res_blobs[i].on_list = FALSE], i + 1)
    ELSE find_raw_copy_loop([r EXCEPT !.num_nonraw_bytes = @ + r.res_blobs[i].size],
                            i + 1)

find_raw_copy_blobs ==
    /\ rc.pc = "find"
    /\ rc' = [find_raw_copy_loop([rc EXCEPT !.rdesc.raw_copy_ok = FALSE], 1)
                 EXCEPT !.pc = "found"]
    /\ UNCHANGED <<ovars, blobs, wb, cc, sp, pl, dec>>

\* write_raw_copy_resources(): the resource is copied once, and each of
\* its blobs that is in the write set goes on the blob table list.
write_raw_copy_resources ==
    /\ rc.pc = "found"
    /\ \E ok \in BOOLEAN :
         LET any == \E i \in 1..Len(rc.res_blobs) : rc.res_blobs[i].raw_copy
         IN rc' = IF ~any THEN [rc EXCEPT !.pc = "written"]
                  ELSE IF ~ok THEN [rc EXCEPT !.pc = "failed"]
                  ELSE [rc EXCEPT !.pc = "written",
                                  !.copies = @ + 1,
                                  !.rdesc.raw_copy_ok = FALSE,
                                  !.res_blobs =
                                      [i \in 1..Len(rc.res_blobs) |->
                                         [rc.res_blobs[i] EXCEPT
                                            !.in_blob_table_list =
                                                rc.res_blobs[i].will_be_in_output_wim]]]
    /\ UNCHANGED <<ovars, blobs, wb, cc, sp, pl, dec>>

NextRawCopy ==
    \/ find_raw_copy_blobs
    \/ write_raw_copy_resources

SpecRawCopy == InitRawCopy /\ [][NextRawCopy]_vars

\* The resource has been copied raw.
SolidRawCopied ==
    /\ rc.pc = "written"
    /\ rc.copies > 0
    /\ WIM_RESHDR_FLAG_SOLID \in rc.rdesc.flags

\* C23 as stated: a solid resource is copied raw only when its blobs that
\* are in the write set make up two thirds or more of its uncompressed size.
C23_Original ==
    SolidRawCopied =>
        3 * write_size(rc.res_blobs) >= 2 * rc.rdesc.uncompressed_size

\* C23: a solid resource is copied raw only when its blobs that are in the
\* write set make up more than two thirds of its uncompressed size, or when
\* its container is being compacted in place.
C23_UnlessCompacted ==
    SolidRawCopied =>
        \/ 3 * write_size(rc.res_blobs) > 2 * rc.rdesc.uncompressed_size
        \/ rc.rdesc.being_compacted

\* A solid resource copied with one of its three blobs left out, and with
\* the flag of an earlier decision on it.
C23_Witness ==
    /\ SolidRawCopied
    /\ ~rc.rdesc.being_compacted
    /\ Len(rc.res_blobs) = 3
    /\ \E i \in 1..3 : ~rc.res_blobs[i].will_be_in_output_wim
    /\ \E i \in 1..3 : rc.res_blobs[i].in_blob_table_list /\ ~rc.res_blobs[i].raw_copy

(***************************************************************************)
(* The LZMS range decoder (src/src/lzms-decompress.c).                     *)
(*                                                                         *)
(* A u32 is kept as its two 16-bit halves, so that every operation is      *)
(* carried out modulo 2^32 the way the C code does.                        *)
(***************************************************************************)
HalfBits == 16
Half == 2^HalfBits
LZMS_PROBABILITY_BITS == 6

u32(hi, lo) == [hi |-> hi, lo |-> lo]
\* The u32 of a number below 2^31.
u32_of(n) == u32(n \div Half, n % Half)
u32_zero == u32(0, 0)
u32_lt(a, b) == a.hi < b.hi \/ (a.hi = b.hi /\ a.lo < b.lo)
u32_le(a, b) == ~u32_lt(b, a)
u32_add(a, b) ==
    LET lo == a.lo + b.lo
    IN u32((a.hi + b.hi + lo \div Half) % Half, lo % Half)
u32_sub(a, b) ==
    LET lo == a.lo - b.lo
        borrow == IF lo < 0 THEN 1 ELSE 0
    IN u32((a.hi - b.hi - borrow) % Half, lo % Half)
\* a << n for n < 16.
u32_shl(a, n) ==
    LET lo == a.lo * 2^n
    IN u32(((a.hi % 2^(HalfBits - n)) * 2^n + lo \div Half) % Half, lo % Half)
\* a >> n for n < 16.
u32_shr(a, n) ==
    u32(a.hi \div 2^n, (a.hi % 2^n) * 2^(HalfBits - n) + a.lo \div 2^n)
\* a * k for a < 2^26 and k < 64.
u32_mul_small(a, k) ==
    LET lo == a.lo * k
    IN u32((a.hi * k + lo \div Half) % Half, lo % Half)

U16_MAX == Half - 1
RANGE_INIT == u32(U16_MAX, U16_MAX)          \* 0xffffffff

\* Bounds of the range decoder model.
MaxRangeBits == 6
MaxRangeUnits == 3
Le16Values == {0, 1, U16_MAX}
ProbValues == {1, 32, 48, 62, 63}
RangeInputs == UNION {[1..n -> Le16Values] : n \in 2..MaxRangeUnits}

\* lzms_range_decoder_init(): the range is 0xffffffff, the code is the first
\* two 16-bit integers of the input.
lzms_range_decoder_init(cdata) ==
    [range |-> RANGE_INIT,
     code |-> u32(cdata[1], cdata[2]),
     in |-> 3,
     num_le16_remaining |-> Len(cdata) - 2]

\* The shift of the normalization would keep every range <= 0xffff at zero
\* if it lost the bits instead of moving them up.
normalize_range_lost(range) == u32(0, 0)
normalize_range(range) == u32(range.lo, 0)

\* lzms_range_decoder_normalize(): ret is -1 when the input has run out; the
\* range has been shifted by then and the code has not.
lzms_range_decoder_normalize(rd, cdata) ==
    IF rd.range.hi = 0
    THEN LET shifted == [rd EXCEPT !.range = normalize_range(rd.range)]
         IN IF rd.num_le16_remaining = 0
            THEN [rd |-> shifted, ret |-> -1]
            ELSE [rd |-> [shifted EXCEPT !.code = u32(rd.code.lo, cdata[rd.in]),
                                         !.in = rd.in + 1,
                                         !.num_le16_remaining = rd.num_le16_remaining - 1],
                  ret |-> 0]
    ELSE [rd |-> rd, ret |-> 0]

\* lzms_range_decoder_decode_bit(): the value of the normalization is not
\* looked at.
lzms_range_decoder_decode_bit(rd0, cdata, prob) ==
    LET n == lzms_range_decoder_normalize(rd0, cdata)
        rd == n.rd
        bound == u32_mul_small(u32_shr(rd.range, LZMS_PROBABILITY_BITS), prob)
    IN IF u32_lt(rd.code, bound)
       THEN [rd |-> [rd EXCEPT !.range = bound], bit |-> 0,
             bound |-> bound, normalized |-> rd.range, normalize_ret |-> n.ret]
       ELSE [rd |-> [rd EXCEPT !.range = u32_sub(rd.range, bound),
                               !.code = u32_sub(rd.code, bound)],
             bit |-> 1,
             bound |-> bound, normalized |-> rd.range, normalize_ret |-> n.ret]

InitRange ==
    /\ \E cdata \in RangeInputs :
         dec = [pc |-> "range", cdata |-> cdata,
                rd |-> lzms_range_decoder_init(cdata),
                num_bits |-> 0, bit |-> 0, prob |-> 0,
                bound |-> u32_zero, normalized |-> RANGE_INIT,
                normalize_ret |-> 0, underflow |-> FALSE]
    /\ files = InitFiles(NoFile)
    /\ path = "orig"
    /\ flock_owner = NoOwner
    /\ wim = [h \in Handles |-> Closed]
    /\ rdescs = {}
    /\ orig0 = NoFile
    /\ blobs = NoBlobs
    /\ wb = NoWriteBlobs
    /\ cc = NoChunks
    /\ sp = NoSplit
    /\ pl = NoPlan
    /\ rc = NoRawCopy

\* One call of lzms_range_decoder_decode_bit() with a probability of
\* prob / 64.
range_decode_bit ==
    /\ dec.pc = "range"
    /\ dec.num_bits < MaxRangeBits
    /\ \E prob \in ProbValues :
         LET r == lzms_range_decoder_decode_bit(dec.rd, dec.cdata, prob)
         IN dec' = [dec EXCEPT !.rd = r.rd, !.bit = r.bit, !.prob = prob,
                               !.bound = r.bound, !.normalized = r.normalized,
                               !.normalize_ret = r.normalize_ret,
                               !.underflow = dec.underflow \/ r.normalize_ret = -1,
                               !.num_bits = dec.num_bits + 1]
    /\ UNCHANGED <<ovars, blobs, wb, cc, sp, pl, rc>>

NextRange == range_decode_bit

SpecRange == InitRange /\ [][NextRange]_vars

\* C40: in 32-bit unsigned arithmetic the range is never zero after a
\* decoded bit, and whenever a bound is computed (after the normalization)
\* the range is at least 2^16, for the probabilities 1..63 and any input,
\* also one that has run out.
C40_RangeNonzero ==
    dec.pc = "range" =>
        /\ dec.rd.range # u32_zero
        /\ dec.num_bits > 0 =>
             /\ dec.normalized.hi >= 1
             /\ dec.bound # u32_zero
             /\ u32_lt(dec.bound, dec.normalized)

\* A bit decoded after a normalization that found the input used up.
C40_Witness ==
    /\ dec.pc = "range"
    /\ dec.num_bits > 0
    /\ dec.normalize_ret = -1
    /\ dec.normalized.lo = 0
    /\ dec.prob = 63

(***************************************************************************)
(* The LZMS item loop: lzms_decompress() and lzms_decode_items()           *)
(* (src/src/lzms-decompress.c).                                            *)
(*                                                                         *)
(* The bytes of the input are left out: which bit the range decoder        *)
(* returns, whether a normalization needs a 16-bit unit, and which symbol  *)
(* and value the Huffman decoders return depend on them and are chosen     *)
(* freely.  What is kept is how much input either stream has left, the     *)
(* number of buffered bits, the match queues and the positions.            *)
(***************************************************************************)
LZMS_NUM_RECENT_OFFSETS == 3
LZMS_MAX_CODEWORD_LEN == 15
LZMS_NUM_DELTA_POWER_SYMS == 8

\* Bounds of the item loop.
MaxItems == 3
MaxItemUnits == 3
BigBlockBits == 26
BigBlock == 2^BigBlockBits
OutSizes == {0, 3, BigBlock}
CompressedSizes == {2, 5} \cup {2 * n : n \in 2..MaxItemUnits}
SymLens == {8, LZMS_MAX_CODEWORD_LEN}
ExtraBitCounts == {0, 17}
Powers == {0, 1, LZMS_NUM_DELTA_POWER_SYMS - 1}

\* lzms_input_bitstream_ensure_bits().  A num_filled_bits below zero stands
\* for the unsigned value 2^32 less than it (see remove_bits).
RECURSIVE lzms_input_bitstream_ensure_bits(_, _)
lzms_input_bitstream_ensure_bits(is, num_bits) ==
    IF is.num_filled_bits >= 0 /\ is.num_filled_bits < num_bits
    THEN IF is.num_le16_remaining = 0
         THEN [is |-> is, ret |-> -1]
         ELSE lzms_input_bitstream_ensure_bits(
                  [is EXCEPT !.num_le16_remaining = @ - 1,
                             !.num_filled_bits = @ + 16], num_bits)
    ELSE [is |-> is, ret |-> 0]

\* lzms_input_bitstream_remove_bits(): num_filled_bits is unsigned and
\* LZMS_ASSERT() checks nothing in a normal build, so removing more bits
\* than are buffered wraps around; `over' records that bits were taken
\* that the input never held.
lzms_input_bitstream_remove_bits(is, num_bits) ==
    [is EXCEPT !.num_filled_bits = @ - num_bits,
               !.over = @ \/ is.num_filled_bits < num_bits]

\* lzms_input_bitstream_read_bits(): 0 when the input has run out.
lzms_input_bitstream_read_bits(is, num_bits) ==
    LET e == lzms_input_bitstream_ensure_bits(is, num_bits)
    IN IF e.ret # 0
       THEN [e.is EXCEPT !.over = TRUE]
       ELSE lzms_input_bitstream_remove_bits(e.is, num_bits)

\* lzms_huffman_decode_symbol() as far as the bitstream goes: the value of
\* ensure_bits is not looked at, and the bits of the codeword are removed.
huffman_consume(is, len) ==
    lzms_input_bitstream_remove_bits(
        lzms_input_bitstream_ensure_bits(is, LZMS_MAX_CODEWORD_LEN).is, len)

\* lzms_decode_value(): a symbol, then the extra bits of its slot.
decode_value_consume(is, len, num_extra_bits) ==
    lzms_input_bitstream_read_bits(huffman_consume(is, len), num_extra_bits)

\* lzms_init_lru_queues() and lzms_update_lru_queues() are defined outside
\* src/; they follow the description of the queues: {1, 2, 3, 4} and
\* {0, 0, 0, 0}, and the offset of an item goes to the front one item late.
lzms_init_lru_queues ==
    [lz |-> [recent_offsets |-> <<1, 2, 3, 4>>,
             prev_offset |-> 0, upcoming_offset |-> 0],
     delta |-> [recent_powers |-> <<0, 0, 0, 0>>,
                recent_offsets |-> <<1, 2, 3, 4>>,
                prev_power |-> 0, prev_offset |-> 0,
                upcoming_power |-> 0, upcoming_offset |-> 0]]

push_front(queue, v) == <<v>> \o SubSeq(queue, 1, LZMS_NUM_RECENT_OFFSETS)

lzms_update_lru_queues(lru) ==
    [lz |-> [recent_offsets |->
                 IF lru.lz.prev_offset # 0
                 THEN push_front(lru.lz.recent_offsets, lru.lz.prev_offset)
                 ELSE lru.lz.recent_offsets,
             prev_offset |-> lru.lz.upcoming_offset,
             upcoming_offset |-> lru.lz.upcoming_offset],
     delta |-> [recent_powers |->
                    IF lru.delta.prev_offset # 0
                    THEN push_front(lru.delta.recent_powers, lru.delta.prev_power)
                    ELSE lru.delta.recent_powers,
                recent_offsets |->
                    IF lru.delta.prev_offset # 0
                    THEN push_front(lru.delta.recent_offsets, lru.delta.prev_offset)
                    ELSE lru.delta.recent_offsets,
                prev_power |-> lru.delta.upcoming_power,
                prev_offset |-> lru.delta.upcoming_offset,
                upcoming_power |-> lru.delta.upcoming_power,
                upcoming_offset |-> lru.delta.upcoming_offset]]

\* A queue that keeps the entry a repeat match has used.
remove_recent_kept(queue, i) == queue
\* for (; i < LZMS_NUM_RECENT_OFFSETS; i++) recent[i] = recent[i + 1];
\* slot i of the C array is entry i + 1 here.
remove_recent(queue, i) ==
    [j \in 1..(LZMS_NUM_RECENT_OFFSETS + 1) |->
        IF j >= i + 1 /\ j <= LZMS_NUM_RECENT_OFFSETS
        THEN queue[j + 1] ELSE queue[j]]

NoItem == [kind |-> "none", rep |-> -1, offset |-> 0, power |-> 0,
           raw_offset |-> 0, length |-> 0, dst |-> 0, accepted |-> FALSE]

InitItems ==
    /\ \E compressed_size \in CompressedSizes, uncompressed_size \in OutSizes :
         dec = [pc |-> "start",
                compressed_size |-> compressed_size,
                out_nbytes |-> uncompressed_size,
                out_next |-> 0,
                rd_remaining |-> 0, rd_underflow |-> FALSE,
                is |-> [num_le16_remaining |-> 0, num_filled_bits |-> 0,
                        over |-> FALSE],
                lru |-> lzms_init_lru_queues,
                lru0 |-> lzms_init_lru_queues,
                cur |-> NoItem,
                hist |-> <<>>,
                too_long |-> FALSE, too_far |-> FALSE,
                ret |-> "running"]
    /\ files = InitFiles(NoFile)
    /\ path = "orig"
    /\ flock_owner = NoOwner
    /\ wim = [h \in Handles |-> Closed]
    /\ rdescs = {}
    /\ orig0 = NoFile
    /\ blobs = NoBlobs
    /\ wb = NoWriteBlobs
    /\ cc = NoChunks
    /\ sp = NoSplit
    /\ pl = NoPlan
    /\ rc = NoRawCopy

ItemUnchanged == UNCHANGED <<ovars, blobs, wb, cc, sp, pl, rc>>

\* lzms_decompress() up to the item loop: the checks of the sizes and
\* lzms_init_decompressor(), which gives both streams the whole input.
lzms_decompress ==
    /\ dec.pc = "start"
    /\ dec' =
         IF dec.compressed_size < 4 \/ dec.compressed_size % 2 # 0
         THEN [dec EXCEPT !.pc = "done", !.ret = -1]
         ELSE IF dec.out_nbytes = 0
         THEN [dec EXCEPT !.pc = "done", !.ret = 0]
         ELSE [dec EXCEPT !.pc = "item",
                          !.rd_remaining = dec.compressed_size \div 2 - 2,
                          !.is.num_le16_remaining = dec.compressed_size \div 2]
    /\ ItemUnchanged

\* The range-decoded bits of one item: one to five calls of
\* lzms_range_decoder_decode_bit(), each of which may need a 16-bit unit for
\* its normalization; units wanted beyond the input are the underflow.
range_bits(d, num_bits, units) ==
    [d EXCEPT !.rd_remaining = IF units > @ THEN 0 ELSE @ - units,
              !.rd_underflow = @ \/ units > d.rd_remaining]

\* The bits that select the kind of item: main (0: literal), match (0: LZ,
\* 1: delta), lz_match or delta_match (0: explicit, 1: repeat), and for a
\* repeat match the loop over i < LZMS_NUM_RECENT_OFFSETS - 1.
ItemKinds == [kind : {"literal"}, rep : {-1}]
             \cup [kind : {"lz", "delta"},
                   rep : -1..(LZMS_NUM_RECENT_OFFSETS - 1)]
NumItemBits(k) ==
    IF k.kind = "literal" THEN 1
    ELSE IF k.rep = -1 THEN 3
    ELSE 3 + Min(k.rep + 1, LZMS_NUM_RECENT_OFFSETS - 1)

\* The head of the loop of lzms_decode_items(): the end test, the reset of
\* the upcoming entries, the bits, and for a repeat match the entry taken
\* out of its queue.
lzms_decode_item_bits ==
    /\ dec.pc = "item"
    /\ IF dec.out_next = dec.out_nbytes
       THEN dec' = [dec EXCEPT !.pc = "done", !.ret = 0]
       ELSE /\ Len(dec.hist) < MaxItems
            /\ \E k \in ItemKinds : \E units \in 0..NumItemBits(k) :
                 LET d0 == [dec EXCEPT !.lru.lz.upcoming_offset = 0,
                                       !.lru.delta.upcoming_power = 0,
                                       !.lru.delta.upcoming_offset = 0,
                                       !.lru0 = dec.lru]
                     d1 == range_bits(d0, NumItemBits(k), units)
                     item == [NoItem EXCEPT !.kind = k.kind, !.rep = k.rep,
                                            !.dst = dec.out_next]
                 IN dec' =
                      IF k.kind = "literal"
                      THEN [d1 EXCEPT !.pc = "literal", !.cur = item]
                      ELSE IF k.rep = -1
                      THEN [d1 EXCEPT !.pc = "offset", !.cur = item]
                      ELSE IF k.kind = "lz"
                      THEN LET offset == d1.lru.lz.recent_offsets[k.rep + 1]
                           IN [d1 EXCEPT !.pc = "length",
                                   !.cur = [item EXCEPT !.offset = offset],
                                   !.lru.lz.recent_offsets = remove_recent(@, k.rep),
                                   !.lru.lz.upcoming_offset = offset]
                      ELSE LET power == d1.lru.delta.recent_powers[k.rep + 1]
                               raw_offset == d1.lru.delta.recent_offsets[k.rep + 1]
                           IN [d1 EXCEPT !.pc = "length",
                                   !.cur = [item EXCEPT !.power = power,
                                                        !.raw_offset = raw_offset],
                                   !.lru.delta.recent_powers = remove_recent(@, k.rep),
                                   !.lru.delta.recent_offsets = remove_recent(@, k.rep),
                                   !.lru.delta.upcoming_power = power,
                                   !.lru.delta.upcoming_offset = raw_offset]
    /\ ItemUnchanged

end_item(d) ==
    [d EXCEPT !.pc = "item", !.hist = Append(@, d.cur),
              !.lru = lzms_update_lru_queues(d.lru)]

\* *out_next++ = lzms_huffman_decode_symbol(&d->literal_decoder);
lzms_decode_literal ==
    /\ dec.pc = "literal"
    /\ \E len \in SymLens :
         dec' = end_item([dec EXCEPT !.is = huffman_consume(@, len),
                                     !.out_next = @ + 1,
                                     !.cur.length = 1, !.cur.accepted = TRUE])
    /\ ItemUnchanged

\* The offsets a block of ulen bytes has offset slots for: the slots reach
\* at least up to ulen - 1 (num_offset_slots, line 713).
SlotOffsets(ulen, values) == {v \in values : v >= 1 /\ v <= Max(1, ulen - 1)}
LzOffsetValues(d) == SlotOffsets(d.out_nbytes, {1, 2, d.out_next, d.out_next + 1})
RawOffsetValues(d) ==
    SlotOffsets(d.out_nbytes, {1, 2, d.out_next, BigBlock \div 2 - 1, BigBlock \div 2})

\* An explicit offset: lzms_decode_value(&d->lz_offset_decoder), or the
\* power symbol and lzms_decode_value(&d->delta_offset_decoder).
lzms_decode_offset ==
    /\ dec.pc = "offset"
    /\ \E len \in SymLens, extra \in ExtraBitCounts :
         \/ /\ dec.cur.kind = "lz"
            /\ \E offset \in LzOffsetValues(dec) :
                 dec' = [dec EXCEPT !.pc = "length",
                             !.is = decode_value_consume(@, len, extra),
                             !.cur.offset = offset,
                             !.lru.lz.upcoming_offset = offset]
         \/ /\ dec.cur.kind = "delta"
            /\ \E power \in Powers, raw_offset \in RawOffsetValues(dec) :
                 dec' = [dec EXCEPT !.pc = "length",
                             !.is = decode_value_consume(huffman_consume(@, len),
                                                         len, extra),
                             !.cur.power = power,
                             !.cur.raw_offset = raw_offset,
                             !.lru.delta.upcoming_power = power,
                             !.lru.delta.upcoming_offset = raw_offset]
    /\ ItemUnchanged

\* u32 offset1 = (u32)1 << power; offset2 = raw_offset << power;
\* offset = offset1 + offset2;
delta_offset1(power) == u32_shl(u32_of(1), power)
delta_offset2(power, raw_offset) == u32_shl(u32_of(raw_offset), power)
delta_offset(power, raw_offset) ==
    u32_add(delta_offset1(power), delta_offset2(power, raw_offset))

LengthValues(d) ==
    {1, d.out_nbytes - d.out_next, d.out_nbytes - d.out_next + 1}

\* The length of a match, its validation and the copy; then
\* lzms_update_lru_queues().
lzms_decode_length ==
    /\ dec.pc = "length"
    /\ \E len \in SymLens, extra \in ExtraBitCounts, length \in LengthValues(dec) :
         LET d1 == [dec EXCEPT !.is = decode_value_consume(@, len, extra),
                               !.cur.length = length]
             too_long == length > dec.out_nbytes - dec.out_next
             too_far ==
                 IF dec.cur.kind = "lz"
                 THEN dec.cur.offset > dec.out_next
                 ELSE u32_lt(u32_of(dec.out_next),
                             delta_offset(dec.cur.power, dec.cur.raw_offset))
         IN dec' =
              IF too_long \/ too_far
              THEN [d1 EXCEPT !.pc = "done", !.ret = -1,
                              !.hist = Append(@, d1.cur),
                              !.too_long = too_long, !.too_far = too_far]
              ELSE end_item([d1 EXCEPT !.out_next = @ + length,
                                       !.cur.accepted = TRUE])
    /\ ItemUnchanged

NextItems ==
    \/ lzms_decompress
    \/ lzms_decode_item_bits
    \/ lzms_decode_literal
    \/ lzms_decode_offset
    \/ lzms_decode_length

SpecItems == InitItems /\ [][NextItems]_vars

ItemsDone == dec.pc = "done" /\ Len(dec.hist) > 0
LastItem == dec.hist[Len(dec.hist)]

\* C31 as stated: the decompression returns "corrupt" when a match length
\* exceeds the remaining output, when a match offset exceeds the bytes
\* produced, when the range decoder runs out of input and when the reverse
\* bitstream runs out of input.
C31_Original ==
    (dec.pc = "done" /\ dec.ret = 0) =>
        /\ ~dec.rd_underflow
        /\ ~dec.is.over

\* The two failure modes that are reported: a length beyond the end of the
\* output and an LZ offset beyond its start end the decompression with -1.
LengthAndOffsetChecked ==
    /\ ItemsDone /\ dec.ret = 0 =>
         \A i \in 1..Len(dec.hist) :
            /\ dec.hist[i].accepted
            /\ dec.hist[i].dst + dec.hist[i].length <= dec.out_nbytes
            /\ dec.hist[i].kind = "lz" => dec.hist[i].offset <= dec.hist[i].dst
    /\ ItemsDone /\ ~LastItem.accepted => dec.ret = -1

\* A source position dst - offset of a match lies inside the output
\* produced so far: 1 <= offset <= dst.
InsideProduced(dst, offset) ==
    offset # u32_zero /\ u32_le(offset, u32_of(dst))

AcceptedDeltaMatches ==
    {i \in 1..Len(dec.hist) : dec.hist[i].kind = "delta" /\ dec.hist[i].accepted}

\* C32 as stated: for every delta match that is accepted, the three source
\* positions dst - 2^power, dst - raw_offset * 2^power and
\* dst - (2^power + raw_offset * 2^power) lie inside the output already
\* produced, also when the product or the sum does not fit in 32 bits:
\* neither the values themselves nor the 32-bit values the copy loop
\* subtracts from out_next reach outside.
C32_Original ==
    dec.pc \in {"item", "done"} =>
        \A i \in AcceptedDeltaMatches :
            LET m == dec.hist[i]
                units == m.dst \div 2^m.power    \* dst in steps of 2^power
            IN /\ 1 <= units /\ m.raw_offset <= units /\ m.raw_offset + 1 <= units
               /\ InsideProduced(m.dst, delta_offset1(m.power))
               /\ InsideProduced(m.dst, delta_offset2(m.power, m.raw_offset))
               /\ InsideProduced(m.dst, delta_offset(m.power, m.raw_offset))

\* The queue a repeat match of slot rep leaves behind, rep = -1 standing
\* for an item that names no slot.
WithoutSlot(queue, rep) ==
    IF rep = -1 THEN queue
    ELSE [j \in 1..4 |-> IF j <= rep THEN queue[j]
                         ELSE IF j <= 3 THEN queue[j + 1] ELSE queue[4]]
Pushed(queue, v) == IF v = 0 THEN queue ELSE <<v, queue[1], queue[2], queue[3]>>
\* The LZ offset or delta raw offset item i of the history has used.
UsedOffset(i, kind) ==
    IF i >= 1 /\ dec.hist[i].kind = kind
    THEN IF kind = "lz" THEN dec.hist[i].offset ELSE dec.hist[i].raw_offset
    ELSE 0
RepOf(item, kind) == IF item.kind = kind THEN item.rep ELSE -1

\* C33: the offset of item k goes to the front of its queue only after item
\* k + 1 has been decoded: while item k + 1 is being decoded, and when it is
\* rejected, the queue is the one item k started with less the slot it
\* named and with the offset of item k - 1 in front, and the offset of item
\* k is pending; once item k + 1 is complete the queue is the one it
\* started with, first less the slot it named (one of 0..2), then with the
\* offset of item k in front.
C33_DelayedPush ==
    LET n == Len(dec.hist)
    IN /\ dec.pc \in {"literal", "offset", "length"} =>
            /\ dec.cur.rep \in -1..2
            /\ dec.lru.lz.recent_offsets =
                   WithoutSlot(dec.lru0.lz.recent_offsets, RepOf(dec.cur, "lz"))
            /\ dec.lru.delta.recent_offsets =
                   WithoutSlot(dec.lru0.delta.recent_offsets, RepOf(dec.cur, "delta"))
            /\ dec.lru.lz.prev_offset = UsedOffset(n, "lz")
            /\ dec.lru.delta.prev_offset = UsedOffset(n, "delta")
       /\ (dec.pc \in {"item", "done"} /\ n >= 1 /\ dec.hist[n].accepted) =>
            /\ dec.lru.lz.recent_offsets =
                   Pushed(WithoutSlot(dec.lru0.lz.recent_offsets,
                                      RepOf(dec.hist[n], "lz")),
                          UsedOffset(n - 1, "lz"))
            /\ dec.lru.delta.recent_offsets =
                   Pushed(WithoutSlot(dec.lru0.delta.recent_offsets,
                                      RepOf(dec.hist[n], "delta")),
                          UsedOffset(n - 1, "delta"))
            /\ dec.lru.lz.prev_offset = UsedOffset(n, "lz")
            /\ dec.lru.delta.prev_offset = UsedOffset(n, "delta")

\* A literal, an LZ match with an explicit offset and a repeat match of
\* slot 1: slot 1 is gone, the offset of the second item is in front after
\* the third, and the offset of the third is waiting.
C33_Witness ==
    /\ dec.pc = "item"
    /\ Len(dec.hist) = 3
    /\ dec.hist[1].kind = "literal"
    /\ \A i \in 2..3 : dec.hist[i].kind = "lz" /\ dec.hist[i].accepted
    /\ dec.hist[2].rep = -1 /\ dec.hist[3].rep = 1
    /\ dec.hist[3].offset = 2
    /\ dec.lru.lz.recent_offsets = <<dec.hist[2].offset, 1, 3, 4>>
    /\ dec.lru.lz.prev_offset = 2

(***************************************************************************)
(* The adaptive Huffman codes of LZMS: lzms_init_huffman_decoder() and     *)
(* the rebuild at the head of lzms_huffman_decode_symbol().  A code is     *)
(* known by the frequencies it was built from; the alphabet and the        *)
(* rebuild frequency (512 or 1024 in the format) are small.                *)
(***************************************************************************)
MaxNumSyms == 3
MaxRebuildFreq == 3
MaxSymsDecoded == 7
NoCode == <<>>

\* lzms_init_huffman_decoder(): no code yet, the first symbol builds it.
lzms_init_huffman_decoder(num_syms, rebuild_freq) ==
    [num_syms |-> num_syms,
     rebuild_freq |-> rebuild_freq,
     num_syms_read |-> rebuild_freq,
     sym_freqs |-> [i \in 1..num_syms |-> 1],
     code_freqs |-> NoCode]

\* A counter that is only halved.
halve_freq_only(freq) == freq \div 2
\* sym_freqs[i] >>= 1; sym_freqs[i] += 1;
halve_freq(freq) == freq \div 2 + 1

\* lzms_huffman_decode_symbol() returning sym: the rebuild when it is due,
\* then the tally.
lzms_huffman_decode_symbol(d, sym) ==
    LET due == d.num_syms_read = d.rebuild_freq
        r == IF due
             THEN [d EXCEPT !.code_freqs = d.sym_freqs,
                            !.sym_freqs = [i \in 1..d.num_syms |->
                                              halve_freq(d.sym_freqs[i])],
                            !.num_syms_read = 0]
             ELSE d
    IN [dec |-> [r EXCEPT !.sym_freqs[sym] = @ + 1, !.num_syms_read = @ + 1],
        rebuilt |-> due,
        halved |-> r.sym_freqs]

InitHuffman ==
    /\ \E num_syms \in 2..MaxNumSyms, rebuild_freq \in 2..MaxRebuildFreq :
         dec = [pc |-> "huffman",
                d |-> lzms_init_huffman_decoder(num_syms, rebuild_freq),
                rebuilds |-> 0, decoded |-> 0,
                rebuilt |-> FALSE, halved |-> <<>>]
    /\ files = InitFiles(NoFile)
    /\ path = "orig"
    /\ flock_owner = NoOwner
    /\ wim = [h \in Handles |-> Closed]
    /\ rdescs = {}
    /\ orig0 = NoFile
    /\ blobs = NoBlobs
    /\ wb = NoWriteBlobs
    /\ cc = NoChunks
    /\ sp = NoSplit
    /\ pl = NoPlan
    /\ rc = NoRawCopy

\* One symbol decoded with the code; every symbol has a codeword because no
\* counter is zero.
huffman_decode_symbol ==
    /\ dec.pc = "huffman"
    /\ dec.decoded < MaxSymsDecoded
    /\ \E sym \in 1..dec.d.num_syms :
         LET r == lzms_huffman_decode_symbol(dec.d, sym)
         IN dec' = [dec EXCEPT !.d = r.dec,
                               !.rebuilds = @ + (IF r.rebuilt THEN 1 ELSE 0),
                               !.decoded = @ + 1,
                               !.rebuilt = r.rebuilt,
                               !.halved = r.halved]
    /\ UNCHANGED <<ovars, blobs, wb, cc, sp, pl, rc>>

NextHuffman == huffman_decode_symbol

SpecHuffman == InitHuffman /\ [][NextHuffman]_vars

\* The code is built from equal frequencies when it is first used and is
\* rebuilt exactly once for every rebuild_freq symbols decoded, before the
\* first of them.
RebuiltOnSchedule ==
    /\ dec.rebuilds = DIV_ROUND_UP(dec.decoded, dec.d.rebuild_freq)
    /\ dec.decoded > 0 =>
         dec.d.num_syms_read = dec.decoded - (dec.rebuilds - 1) * dec.d.rebuild_freq
    /\ dec.rebuilds = 0 => dec.d.code_freqs = NoCode
    /\ dec.rebuilds = 1 => \A i \in 1..dec.d.num_syms : dec.d.code_freqs[i] = 1

\* C34 as stated: each adaptive code is uniform when first used and rebuilt
\* exactly once after every rebuild_freq decoded symbols, after which every
\* counter is halved, rounding up, to a value of at least 1.
C34_Original ==
    dec.pc = "huffman" =>
        /\ RebuiltOnSchedule
        /\ dec.rebuilt =>
             \A i \in 1..dec.d.num_syms :
                dec.halved[i] = Max(1, (dec.d.code_freqs[i] + 1) \div 2)

\* C34: each adaptive code is built from equal frequencies when first used
\* and rebuilt exactly once after every rebuild_freq decoded symbols, after
\* which every counter f becomes floor(f / 2) + 1, a value of at least 1
\* (one more than half of an even counter).
C34_HalvedPlusOne ==
    dec.pc = "huffman" =>
        /\ RebuiltOnSchedule
        /\ dec.rebuilt =>
             \A i \in 1..dec.d.num_syms :
                /\ 2 * dec.halved[i] \in {dec.d.code_freqs[i] + 1,
                                          dec.d.code_freqs[i] + 2}
                /\ dec.halved[i] >= 1

\* A second rebuild that finds an even counter of 4 and an odd one.
C34_Witness ==
    /\ dec.pc = "huffman"
    /\ dec.rebuilt
    /\ dec.rebuilds >= 2
    /\ \E i, j \in 1..dec.d.num_syms :
         /\ dec.d.code_freqs[i] = 4 /\ dec.halved[i] = 3
         /\ dec.d.code_freqs[j] % 2 = 1

(***************************************************************************)
(* make_huffman_decode_table() (src/src/decompress_common.c) and           *)
(* pop_huffsym() (wimlib/decompress_common.h).  Symbols are 0-based as in  *)
(* the code; lens[s + 1] is the codeword length of symbol s.  Table        *)
(* entries are 16-bit values with the bit layout of the code.              *)
(***************************************************************************)
MaxTableSyms == 4
MaxTableCodewordLen == 3
DIRECT_ENTRY_LENGTH_SHIFT == 11
SUBTABLE_FLAG_BIT == 15
SUBTABLE_BITS_SHIFT == 12
DECODE_TABLE_SYMBOL_SHIFT == 4
DECODE_TABLE_LENGTH_MASK == 2^DECODE_TABLE_SYMBOL_SHIFT - 1
Unwritten == -1

LensInputs ==
    UNION {[1..n -> 0..MaxTableCodewordLen] : n \in 1..MaxTableSyms}

\* #define MAKE_DIRECT_ENTRY(symbol, length) ((symbol) | ((length) << 11))
MAKE_DIRECT_ENTRY(symbol, length) == symbol + length * 2^DIRECT_ENTRY_LENGTH_SHIFT

\* len_counts[len]: how many symbols have each codeword length.
len_counts_of(lens, max_codeword_len) ==
    [len \in 0..max_codeword_len |->
        Cardinality({i \in 1..Len(lens) : lens[i] = len})]

\* A remainder computed without the test for an over-subscribed code.
RECURSIVE codespace_remainder_unchecked(_, _, _, _)
codespace_remainder_unchecked(len_counts, len, max_codeword_len, remainder) ==
    IF len > max_codeword_len
    THEN (IF remainder < 0 THEN 2^max_codeword_len ELSE remainder)
    ELSE codespace_remainder_unchecked(len_counts, len + 1, max_codeword_len,
                                       2 * remainder - len_counts[len])

\* for (len = 1; len <= max_codeword_len; len++) { remainder <<= 1;
\* remainder -= len_counts[len]; if (remainder < 0) return -1; }
\* The value is the remainder after the loop, or -1 for the early return.
RECURSIVE codespace_remainder(_, _, _, _)
codespace_remainder(len_counts, len, max_codeword_len, remainder) ==
    IF len > max_codeword_len THEN remainder
    ELSE LET r == 2 * remainder - len_counts[len]
         IN IF r < 0 THEN -1
            ELSE codespace_remainder(len_counts, len + 1, max_codeword_len, r)

\* sorted_syms[]: the symbols by increasing codeword length and, within a
\* length, by increasing value; those without a codeword come first.
RECURSIVE sorted_syms_from(_, _, _)
sorted_syms_from(lens, len, max_codeword_len) ==
    IF len > max_codeword_len THEN <<>>
    ELSE SelectSeq([i \in 1..Len(lens) |-> i - 1], LAMBDA s : lens[s + 1] = len)
         \o sorted_syms_from(lens, len + 1, max_codeword_len)

\* The three loops that fill the entries of the codewords of at most
\* table_bits bits, 2^(table_bits - len) entries each; they differ in the
\* width of the store only.
RECURSIVE direct_entries(_, _, _, _)
direct_entries(sorted_syms, sym_idx, lens, table_bits) ==
    IF sym_idx >= Len(sorted_syms) \/ lens[sorted_syms[sym_idx + 1] + 1] > table_bits
    THEN [entries |-> <<>>, sym_idx |-> sym_idx]
    ELSE LET sym == sorted_syms[sym_idx + 1]
             rest == direct_entries(sorted_syms, sym_idx + 1, lens, table_bits)
         IN [entries |-> [k \in 1..2^(table_bits - lens[sym + 1]) |->
                             MAKE_DIRECT_ENTRY(sym, lens[sym + 1])]
                         \o rest.entries,
             sym_idx |-> rest.sym_idx]

\* while (len_counts[codeword_len] == 0) { codeword_len++; codeword <<= 1; }
RECURSIVE skip_unused_lens(_, _, _)
skip_unused_lens(len_counts, codeword_len, codeword) ==
    IF len_counts[codeword_len] = 0
    THEN skip_unused_lens(len_counts, codeword_len + 1, 2 * codeword)
    ELSE [codeword_len |-> codeword_len, codeword |-> codeword]

\* The loop that sizes a new subtable.
RECURSIVE subtable_bits_for(_, _, _, _)
subtable_bits_for(len_counts, table_bits, cur_subtable_bits, remainder) ==
    LET r == remainder - len_counts[table_bits + cur_subtable_bits]
    IN IF r <= 0 THEN cur_subtable_bits
       ELSE subtable_bits_for(len_counts, table_bits, cur_subtable_bits + 1, 2 * r)

\* decode_table[i..i + n - 1] = entry
StoreEntries(table, i, n, entry) ==
    [k \in DOMAIN table |-> IF k >= i /\ k < i + n THEN entry ELSE table[k]]

\* while (sym_idx < num_syms) { ... }: the codewords longer than table_bits.
RECURSIVE fill_subtables(_, _, _, _)
fill_subtables(st, sorted_syms, table_bits, table_num_entries) ==
    IF st.sym_idx >= Len(sorted_syms) THEN st.table
    ELSE LET sk == skip_unused_lens(st.len_counts, st.codeword_len, st.codeword)
             codeword_len == sk.codeword_len
             codeword == sk.codeword
             prefix == codeword \div 2^(codeword_len - table_bits)
             new == prefix # st.cur_subtable_prefix
             cur_subtable_bits ==
                 IF new
                 THEN subtable_bits_for(st.len_counts, table_bits,
                                        codeword_len - table_bits,
                                        2^(codeword_len - table_bits))
                 ELSE st.cur_subtable_bits
             table1 ==
                 IF new
                 THEN StoreEntries(st.table, prefix, 1,
                          2^SUBTABLE_FLAG_BIT
                          + cur_subtable_bits * 2^SUBTABLE_BITS_SHIFT
                          + (st.cur_subtable_pos - table_num_entries))
                 ELSE st.table
             entry == MAKE_DIRECT_ENTRY(sorted_syms[st.sym_idx + 1],
                                        codeword_len - table_bits)
             n == 2^(cur_subtable_bits - (codeword_len - table_bits))
         IN fill_subtables(
                [table |-> StoreEntries(table1, st.cur_subtable_pos, n, entry),
                 sym_idx |-> st.sym_idx + 1,
                 codeword_len |-> codeword_len,
                 codeword |-> codeword + 1,
                 len_counts |-> [st.len_counts EXCEPT ![codeword_len] = @ - 1],
                 cur_subtable_pos |-> st.cur_subtable_pos + n,
                 cur_subtable_bits |-> cur_subtable_bits,
                 cur_subtable_prefix |-> prefix],
                sorted_syms, table_bits, table_num_entries)

\* The array the callers pass: (2^table_bits) + 2 * num_syms entries.
DecodeTableSize(num_syms, table_bits) == 2^table_bits + 2 * num_syms

\* make_huffman_decode_table(): ret and the table it leaves.
make_huffman_decode_table(num_syms, table_bits, lens, max_codeword_len) ==
    LET table_num_entries == 2^table_bits
        empty == [k \in 0..(DecodeTableSize(num_syms, table_bits) - 1) |-> Unwritten]
        len_counts == len_counts_of(lens, max_codeword_len)
        remainder == codespace_remainder(len_counts, 1, max_codeword_len, 1)
        sorted_syms == sorted_syms_from(lens, 0, max_codeword_len)
        direct == direct_entries(sorted_syms, len_counts[0], lens, table_bits)
        filled == [k \in DOMAIN empty |->
                      IF k < Len(direct.entries) THEN direct.entries[k + 1]
                      ELSE Unwritten]
    IN IF remainder < 0 THEN [ret |-> -1, table |-> empty]
       ELSE IF remainder # 0
       THEN IF remainder = 2^max_codeword_len
            THEN [ret |-> 0, table |-> StoreEntries(empty, 0, table_num_entries, 0)]
            ELSE [ret |-> -1, table |-> empty]
       ELSE [ret |-> 0,
             table |-> fill_subtables(
                 [table |-> filled,
                  sym_idx |-> direct.sym_idx,
                  codeword_len |-> table_bits + 1,
                  codeword |-> 2 * Len(direct.entries),
                  len_counts |-> len_counts,
                  cur_subtable_pos |-> table_num_entries,
                  cur_subtable_bits |-> table_bits,
                  cur_subtable_prefix |-> -1],
                 sorted_syms, table_bits, table_num_entries)]

\* bitstream_peek_bits(): the next num_bits bits as a number, high bit
\* first; bits past the end of the input are zero.
RECURSIVE peek_bits(_, _)
peek_bits(bits, num_bits) ==
    IF num_bits = 0 THEN 0
    ELSE (IF Len(bits) >= 1 THEN bits[1] ELSE 0) * 2^(num_bits - 1)
         + peek_bits(IF Len(bits) >= 1 THEN Tail(bits) ELSE bits, num_bits - 1)
remove_bits(bits, num_bits) ==
    IF num_bits >= Len(bits) THEN <<>> ELSE SubSeq(bits, num_bits + 1, Len(bits))

\* A read of decode_table[i]: an entry the builder did not write, or one
\* outside the array, has no defined value; `garbage' is what is found.
TableEntry(table, i, garbage) ==
    IF i \in DOMAIN table /\ table[i] # Unwritten THEN table[i] ELSE garbage

\* pop_huffsym(): the symbol and the number of bits removed.
pop_huffsym(table, bits, table_bits, max_codeword_len, garbage) ==
    LET entry == TableEntry(table, peek_bits(bits, table_bits), garbage)
        sym == entry \div 2^DECODE_TABLE_SYMBOL_SHIFT
        len == entry % (DECODE_TABLE_LENGTH_MASK + 1)
    IN IF max_codeword_len > table_bits
          /\ entry >= 2^(table_bits + DECODE_TABLE_SYMBOL_SHIFT)
       THEN LET rest == remove_bits(bits, table_bits)
                entry2 == TableEntry(table, sym + peek_bits(rest, len), garbage)
            IN [sym |-> entry2 \div 2^DECODE_TABLE_SYMBOL_SHIFT,
                removed |-> table_bits + (entry2 % (DECODE_TABLE_LENGTH_MASK + 1))]
       ELSE [sym |-> sym, removed |-> len]

InitTable ==
    /\ \E lens \in LensInputs, table_bits \in 1..MaxTableCodewordLen :
         dec = [pc |-> "lens", lens |-> lens, num_syms |-> Len(lens),
                table_bits |-> table_bits,
                max_codeword_len |-> MaxTableCodewordLen,
                ret |-> 0, table |-> <<>>,
                sym |-> -1, bits |-> <<>>, got |-> [sym |-> -1, removed |-> 0]]
    /\ files = InitFiles(NoFile)
    /\ path = "orig"
    /\ flock_owner = NoOwner
    /\ wim = [h \in Handles |-> Closed]
    /\ rdescs = {}
    /\ orig0 = NoFile
    /\ blobs = NoBlobs
    /\ wb = NoWriteBlobs
    /\ cc = NoChunks
    /\ sp = NoSplit
    /\ pl = NoPlan
    /\ rc = NoRawCopy

TableUnchanged == UNCHANGED <<ovars, blobs, wb, cc, sp, pl, rc>>

build_decode_table ==
    /\ dec.pc = "lens"
    /\ LET r == make_huffman_decode_table(dec.num_syms, dec.table_bits, dec.lens,
                                          dec.max_codeword_len)
       IN dec' = [dec EXCEPT !.pc = "built", !.ret = r.ret, !.table = r.table]
    /\ TableUnchanged

\* The canonical codeword of each symbol, as a number of lens[sym + 1] bits:
\* the codewords are counted up in the order of sorted_syms, with a zero
\* appended for every bit a codeword is longer than the one before it.
RECURSIVE canonical_codeword(_, _, _)
canonical_codeword(lens, sorted_syms, k) ==
    IF k = 1 \/ lens[sorted_syms[k - 1] + 1] = 0 THEN 0
    ELSE (canonical_codeword(lens, sorted_syms, k - 1) + 1)
         * 2^(lens[sorted_syms[k] + 1] - lens[sorted_syms[k - 1] + 1])
CodewordBits(codeword, len) ==
    [i \in 1..len |-> (codeword \div 2^(len - i)) % 2]
CodewordOf(lens, sym) ==
    LET sorted_syms == sorted_syms_from(lens, 0, MaxTableCodewordLen)
        k == CHOOSE k \in 1..Len(sorted_syms) : sorted_syms[k] = sym
    IN CodewordBits(canonical_codeword(lens, sorted_syms, k), lens[sym + 1])

\* One symbol decoded from an input that starts with the codeword of sym
\* and goes on with any bit, or ends.
decode_huffsym ==
    /\ dec.pc \in {"built", "decoded"}
    /\ dec.ret = 0
    /\ \E sym \in 0..(dec.num_syms - 1), more \in {<<>>, <<0>>, <<1>>},
          garbage \in {0, 2^16 - 1} :
         /\ dec.lens[sym + 1] > 0
         /\ LET bits == CodewordOf(dec.lens, sym) \o more
            IN dec' = [dec EXCEPT !.pc = "decoded", !.sym = sym, !.bits = bits,
                           !.got = pop_huffsym(dec.table, bits, dec.table_bits,
                                               dec.max_codeword_len, garbage)]
    /\ TableUnchanged

NextTable ==
    \/ build_decode_table
    \/ decode_huffsym

SpecTable == InitTable /\ [][NextTable]_vars

\* The share of the codespace the lengths take, in units of
\* 2^-MaxTableCodewordLen.
RECURSIVE CodespaceUsed(_)
CodespaceUsed(lens) ==
    IF lens = <<>> THEN 0
    ELSE (IF lens[1] = 0 THEN 0 ELSE 2^(MaxTableCodewordLen - lens[1]))
         + CodespaceUsed(Tail(lens))

\* C35: make_huffman_decode_table returns "invalid" for every
\* over-subscribed set of lengths and for every under-subscribed set with a
\* nonzero length, and succeeds for the complete codes and for the set of
\* lengths that are all zero.
C35_Validity ==
    dec.pc \in {"built", "decoded"} =>
        LET used == CodespaceUsed(dec.lens)
        IN /\ used > 2^MaxTableCodewordLen => dec.ret = -1
           /\ (used < 2^MaxTableCodewordLen /\ used > 0) => dec.ret = -1
           /\ used = 2^MaxTableCodewordLen => dec.ret = 0
           /\ used = 0 => dec.ret = 0

\* An over-subscribed set of lengths whose longest codewords alone would
\* fit: two codewords of one bit and one of three.
C35_Witness ==
    /\ dec.pc = "built"
    /\ dec.ret = -1
    /\ dec.lens = <<1, 1, 3>>

\* C36 as stated: for every complete code, decoding through the table that
\* was built yields the symbol of the canonical codeword and removes
\* exactly the bits of that codeword.
C36_Original ==
    dec.pc = "decoded" /\ CodespaceUsed(dec.lens) = 2^MaxTableCodewordLen =>
        /\ dec.got.sym = dec.sym
        /\ dec.got.removed = dec.lens[dec.sym + 1]

(***************************************************************************)
(* DONE_WITH_FILE messages.  The blobs of the list are streams of captured *)
(* files; write_blobs() is given SEND_DONE_WITH_FILE and its loop runs as  *)
(* above.  done_with_file records each message sent with the blobs of its  *)
(* file that were pending at the time.                                     *)
(***************************************************************************)

\* Each blob a file of its own, all blobs streams of one file, or the
\* first blob not located in a file and the others streams of one file.
FileInodeMaps(n) ==
    {[b \in 1..n |-> b], [b \in 1..n |-> 1],
     [b \in 1..n |-> IF b = 1 THEN 0 ELSE 2]}

InitDoneWithFile ==
    /\ \E sizes \in BlobSizeLists \cup SolidBlobSizeLists,
          solid \in BOOLEAN, compressor \in BOOLEAN, n \in 1..MaxChunkBuffers :
         /\ solid => compressor
         /\ sizes \in SolidBlobSizeLists \ BlobSizeLists => solid
         /\ ~compressor => n = 1
         /\ \E file_inode \in FileInodeMaps(Len(sizes)) :
              cc = write_blobs_ctx(sizes, solid, compressor, n, FALSE,
                                       FALSE, TRUE, file_inode)
    /\ files = InitFiles(NoFile)
    /\ path = "orig"
    /\ flock_owner = NoOwner
    /\ wim = [h \in Handles |-> Closed]
    /\ rdescs = {}
    /\ orig0 = NoFile
    /\ blobs = NoBlobs
    /\ wb = NoWriteBlobs
    /\ sp = NoSplit
    /\ pl = NoPlan
    /\ rc = NoRawCopy
    /\ dec = NoDecoder

SpecDoneWithFile == InitDoneWithFile /\ [][NextChunks]_vars

\* The files that have a blob in the list.
CapturedFiles == {cc.file_inode[b] : b \in 1..cc.num_blobs} \ {0}

MessagesFor(inode) ==
    {i \in 1..Len(cc.done_with_file) : cc.done_with_file[i].path_to_file = inode}

\* C37: with the messages enabled, no file gets a second DONE_WITH_FILE
\* message, a message is sent only when no blob of its file is still to be
\* read, written or rewritten, and once all blobs have been written each
\* captured file has got its message.
C37_DoneWithFile ==
    cc.pc # "off" /\ cc.send_done_with_file =>
        /\ \A inode \in CapturedFiles : Cardinality(MessagesFor(inode)) <= 1
        /\ \A i \in 1..Len(cc.done_with_file) : cc.done_with_file[i].pending = {}
        /\ cc.pc = "done" =>
             \A inode \in CapturedFiles : Cardinality(MessagesFor(inode)) = 1

\* Two streams of one file: the second was dropped as a duplicate while the
\* first was with the compressor, the first did not get smaller and was
\* written again uncompressed, and the file got its message.
C37_Witness ==
    /\ cc.pc = "done" /\ cc.send_done_with_file
    /\ cc.num_blobs = 2 /\ cc.file_inode = <<1, 1>>
    /\ cc.discarded = {2}
    /\ \E i \in 1..Len(cc.blob_table_list) :
         cc.blob_table_list[i].blob = 1 /\ cc.blob_table_list[i].rewritten
    /\ Len(cc.done_with_file) = 1

(***************************************************************************)
(* The chunks of a non-solid resource.  Each chunk handed to the           *)
(* compressor carries the blobs whose bytes were copied into it.           *)
(***************************************************************************)

\* The bytes of the blob that are with the compressor.
RECURSIVE OutstandingBytes(_, _)
OutstandingBytes(outstanding, blob) ==
    IF outstanding = <<>> THEN 0
    ELSE (IF blob \in Head(outstanding).blobs THEN Head(outstanding).usize ELSE 0)
         + OutstandingBytes(Tail(outstanding), blob)

\* The bytes of the blob read so far.
BytesRead(c, blob) ==
    IF blob.id = cur_read_blob(c) THEN c.cur_read_blob_offset ELSE blob.size

\* The bytes of the k-th blob of blobs_being_compressed that have been
\* written, are with the compressor or are in the buffer being filled.
BytesTaken(c, k) ==
    LET blob == c.blobs_being_compressed[k]
    IN (IF k = 1 THEN c.cur_write_blob_offset ELSE 0)
       + OutstandingBytes(c.outstanding, blob.id)
       + (IF blob.id \in c.cur_chunk_buf_blobs THEN c.cur_chunk_buf_filled ELSE 0)

\* C38: in a non-solid resource written with a compressor, a chunk holds
\* bytes of one blob only; once the last byte of a blob is copied no
\* chunk is left being filled; and the bytes of a blob written, with the
\* compressor and in the buffer are the bytes read of it, a blob leaving
\* the list with the chunk that brings the bytes written to its size.
C38_ChunkOfOneBlob ==
    cc.pc \notin {"off", "failed"} /\ ~cc.solid /\ cc.compressor =>
        /\ \A i \in 1..Len(cc.outstanding) :
             Cardinality(cc.outstanding[i].blobs) = 1
        /\ Cardinality(cc.cur_chunk_buf_blobs) <= 1
        /\ cc.cur_read_blob_offset = cc.cur_read_blob_size =>
             cc.cur_chunk_buf_filled = 0
        /\ \A k \in 1..Len(cc.blobs_being_compressed) :
             /\ BytesTaken(cc, k) = BytesRead(cc, cc.blobs_being_compressed[k])
             /\ k = 1 => cc.cur_write_blob_offset < cc.blobs_being_compressed[k].size

\* The last chunk of the first blob, shorter than the chunk size, is with
\* the compressor while a chunk is being filled from the second blob.
C38_Witness ==
    /\ cc.pc # "off" /\ ~cc.solid /\ cc.compressor
    /\ cc.cur_chunk_buf_blobs = {2} /\ cc.cur_chunk_buf_filled > 0
    /\ \E i \in 1..Len(cc.outstanding) :
         /\ cc.outstanding[i].blobs = {1}
         /\ cc.outstanding[i].usize < OutChunkSize

\* C39: the chunk sizes recorded for a resource never outnumber the
\* entries of chunk_csizes allocated when it was begun, nor the chunks a
\* resource of the size still expected is made of; a solid resource that
\* lost duplicates after it was begun included.
C39_ChunkSizesFit ==
    cc.pc # "off" /\ cc.compressor =>
        /\ Len(cc.chunk_csizes) = cc.chunk_index
        /\ cc.chunk_index <= cc.num_alloc_chunks
        /\ cc.chunk_index <= DIV_ROUND_UP(cc.cur_write_res_size, OutChunkSize)

\* A solid resource written to its end after a duplicate was dropped from
\* it, in fewer chunks than it was begun for.
C39_Witness ==
    /\ cc.pc = "done" /\ cc.solid
    /\ cc.discarded # {}
    /\ cc.chunk_index >= 2
    /\ chunk_csizes_new_length(cc.chunk_index) < cc.num_alloc_chunks

============================================================================
